---- MODULE Spec2Model ----
(***************************************************************************)
(* A model of the JTL parser and aggregation engine of jmeter-storyteller   *)
(* (src/src/utils/jtlParser.ts, class JTLParser), and of the upload         *)
(* handlers and memoized views of the components that own a parser          *)
(* (src/src/contexts/AppContext.tsx, src/src/pages/Index.tsx).              *)
(*                                                                          *)
(* Text is modelled character by character: a string is a sequence of       *)
(* one-character strings, so that trimming, line splitting, the quote-aware *)
(* row decoder, header normalisation and parseInt are computed as the code  *)
(* computes them.                                                           *)
(*                                                                          *)
(* An optional value (a field of Partial<JTLRecord>, a parseInt result that *)
(* may be NaN) is <<>> when absent and <<v>> when present.                  *)
(*                                                                          *)
(* Numbers the code rounds to two decimals are kept as integers in          *)
(* hundredths (errorRate 5000 is 50.00 %).                                  *)
(***************************************************************************)
EXTENDS Integers, Sequences, FiniteSets, TLC

VARIABLES
    records,          \* JTLParser.records
    metricsCache,     \* JTLParser.metricsCache: <<>> (undefined) or <<metrics>>
    lastParseResult,  \* JTLParser.lastParseResult: <<>> (undefined) or <<result>>
    input,            \* the last parseFile's text and clock: <<>> or <<in>>
    discarded,        \* whether the last parseFile call found records, and
                      \* cached metrics, in the object and discarded them
    call,             \* the last operation called, with its arguments
    ret,              \* what that operation returned
    page,             \* the state of the Index page: <<>> while not mounted
    app               \* the state of AppProvider: <<>> while not mounted

vars ==
    <<records, metricsCache, lastParseResult, input, discarded, call, ret,
      page, app>>

----------------------------------------------------------------------------
(* Characters and strings                                                   *)

TAB == "\t"
NL == "\n"
SPACE == " "
QUOTE == "\""

\* ECMAScript white space and line terminators, as far as the inputs use them
WhiteSpace == {SPACE, TAB, NL, "\r"}

UpperLetters == <<"A","B","C","D","E","F","G","H","I","J","K","L","M",
                  "N","O","P","Q","R","S","T","U","V","W","X","Y","Z">>
LowerLetters == <<"a","b","c","d","e","f","g","h","i","j","k","l","m",
                  "n","o","p","q","r","s","t","u","v","w","x","y","z">>
DigitChars == <<"0","1","2","3","4","5","6","7","8","9">>

Range(s) == {s[i] : i \in DOMAIN s}

\* String.prototype.toLowerCase on one character
LowerChar(c) ==
    IF c \in Range(UpperLetters)
    THEN LowerLetters[CHOOSE i \in DOMAIN UpperLetters : UpperLetters[i] = c]
    ELSE c

toLowerCase(s) == [i \in DOMAIN s |-> LowerChar(s[i])]

IsDigit(c) == c \in Range(DigitChars)
DigitVal(c) == (CHOOSE i \in DOMAIN DigitChars : DigitChars[i] = c) - 1

\* 1, 2, ..., n
Indices(n) == [i \in 1..n |-> i]

\* String.prototype.trim: from the first to the last character that is not
\* white space
NonWhiteAt(s) ==
    LET NotWhite(i) == s[i] \notin WhiteSpace
    IN  SelectSeq(Indices(Len(s)), NotWhite)

TrimTo(s, kept) ==
    IF kept = <<>> THEN <<>> ELSE SubSeq(s, kept[1], kept[Len(kept)])

trim(s) == TrimTo(s, NonWhiteAt(s))

\* String.prototype.trimStart, which parseInt applies to its argument
TrimLeftTo(s, kept) ==
    IF kept = <<>> THEN <<>> ELSE SubSeq(s, kept[1], Len(s))

TrimLeft(s) == TrimLeftTo(s, NonWhiteAt(s))

\* String.prototype.split(sep) for a one-character separator: the pieces
\* between the separators, always at least one piece
SeparatorsAt(s, sep) ==
    LET IsSep(i) == s[i] = sep
    IN  SelectSeq(Indices(Len(s)), IsSep)

SplitAt(s, cuts) ==
    [k \in 1..(Len(cuts) + 1) |->
        SubSeq(s,
               (IF k = 1 THEN 0 ELSE cuts[k - 1]) + 1,
               (IF k = Len(cuts) + 1 THEN Len(s) + 1 ELSE cuts[k]) - 1)]

split(s, sep) == SplitAt(s, SeparatorsAt(s, sep))

\* field.replace(/^"|"$/g, ''): one leading and one trailing quote removed
StripQuotes(f) ==
    SubSeq(f,
           IF f # <<>> /\ f[1] = QUOTE THEN 2 ELSE 1,
           IF f # <<>> /\ f[Len(f)] = QUOTE THEN Len(f) - 1 ELSE Len(f))

\* parseInt(value), radix 10: optional white space, optional sign, then the
\* longest run of digits; NaN (<<>>) when there is no digit
RECURSIVE DigitsValue(_, _, _)
DigitsValue(s, i, acc) ==
    IF i <= Len(s) /\ IsDigit(s[i])
    THEN DigitsValue(s, i + 1, acc * 10 + DigitVal(s[i]))
    ELSE acc

\* a numeral without its sign
Unsigned(s) == IF s # <<>> /\ Head(s) \in {"-", "+"} THEN Tail(s) ELSE s

ParseNumeral(s) ==
    IF Unsigned(s) = <<>> \/ ~IsDigit(Head(Unsigned(s))) THEN <<>>
    ELSE <<(IF Head(s) = "-" THEN -1 ELSE 1) * DigitsValue(Unsigned(s), 1, 0)>>

parseInt(value) == ParseNumeral(TrimLeft(value))

----------------------------------------------------------------------------
(* Row decoder and delimiter detection                                      *)

\* a mutation of IsToggle: every quote character toggles inQuotes
IsQuote(line, delimiter, i, inQuotes) == line[i] = QUOTE

\* line 204: this quote character toggles inQuotes
IsToggle(line, delimiter, i, inQuotes) ==
    line[i] = QUOTE /\ (i = 1 \/ line[i - 1] = delimiter \/ inQuotes)

\* lines 201-213: the value of inQuotes on reaching each of the characters
\* a..b of the line, inQuotes being q on reaching character a; computed by
\* halving so that the evaluation stays shallow
\* inQuotes after character i, inQuotes being q on reaching it
AfterChar(line, delimiter, i, q) ==
    IF IsToggle(line, delimiter, i, q) THEN ~q ELSE q

RECURSIVE QuoteStates(_, _, _, _, _)
RECURSIVE QuoteStatesFrom(_, _, _, _, _)
QuoteStates(line, delimiter, a, b, q) ==
    IF a = b THEN <<q>>
    ELSE QuoteStatesFrom(line, delimiter, (a + b) \div 2, b,
                         QuoteStates(line, delimiter, a, (a + b) \div 2, q))

\* the states of characters a..m being known (left), those of m+1..b follow
QuoteStatesFrom(line, delimiter, m, b, left) ==
    left \o QuoteStates(line, delimiter, m + 1, b,
                        AfterChar(line, delimiter, m, left[Len(left)]))

\* JTLParser.parseRow: the two-state machine over the characters of a line.
\* A character toggles inQuotes, ends a cell, or is added to the current
\* cell; every cell is trimmed and loses its surrounding quotes
\* inQuotes being known on reaching every character:
\* line 205, character i ends the current cell
EndsCell(line, delimiter, inQuotes, i) ==
    /\ ~IsToggle(line, delimiter, i, inQuotes[i])
    /\ line[i] = delimiter
    /\ ~inQuotes[i]

\* line 209, character i is added to the current cell
Kept(line, delimiter, inQuotes, i) ==
    /\ ~IsToggle(line, delimiter, i, inQuotes[i])
    /\ ~EndsCell(line, delimiter, inQuotes, i)

\* the positions of the characters that end a cell
CellEnds(line, delimiter, inQuotes) ==
    LET Ends(i) == EndsCell(line, delimiter, inQuotes, i)
    IN  SelectSeq(Indices(Len(line)), Ends)

\* the characters of the line at the given positions
CharsAt(line, at) == [j \in DOMAIN at |-> line[at[j]]]

\* the cell collected between positions from and to
Current(line, delimiter, inQuotes, from, to) ==
    LET Adds(i) == Kept(line, delimiter, inQuotes, i)
    IN  CharsAt(line,
                SelectSeq([j \in 1..(to - from + 1) |-> from + j - 1], Adds))

\* lines 206, 214 and 215: every cell is trimmed and loses its quotes
Cells(line, delimiter, inQuotes, cuts) ==
    [k \in 1..(Len(cuts) + 1) |->
        StripQuotes(trim(
            Current(line, delimiter, inQuotes,
                    IF k = 1 THEN 1 ELSE cuts[k - 1] + 1,
                    IF k = Len(cuts) + 1 THEN Len(line) ELSE cuts[k] - 1)))]

RowWith(line, delimiter, inQuotes) ==
    Cells(line, delimiter, inQuotes, CellEnds(line, delimiter, inQuotes))

parseRow(line, delimiter) ==
    RowWith(line, delimiter,
            IF line = <<>> THEN <<>>
            ELSE QuoteStates(line, delimiter, 1, Len(line), FALSE))

delimiters == <<TAB, ",", ";", "|">>

\* mutation of DetectFrom: a later candidate with as many fields replaces
\* the best one
RECURSIVE DetectLastFrom(_, _, _, _)
DetectLastFrom(line, k, bestDelimiter, maxFields) ==
    IF k > Len(delimiters) THEN bestDelimiter
    ELSE
        IF Len(parseRow(line, delimiters[k])) >= maxFields
        THEN DetectLastFrom(line, k + 1, delimiters[k],
                            Len(parseRow(line, delimiters[k])))
        ELSE DetectLastFrom(line, k + 1, bestDelimiter, maxFields)

\* JTLParser.detectDelimiter: the first candidate with the most fields
RECURSIVE DetectFrom(_, _, _, _)
DetectFrom(line, k, bestDelimiter, maxFields) ==
    IF k > Len(delimiters) THEN bestDelimiter
    ELSE
        IF Len(parseRow(line, delimiters[k])) > maxFields
        THEN DetectFrom(line, k + 1, delimiters[k],
                        Len(parseRow(line, delimiters[k])))
        ELSE DetectFrom(line, k + 1, bestDelimiter, maxFields)

detectDelimiter(line) == DetectFrom(line, 1, TAB, 0)

----------------------------------------------------------------------------
(* Field mapper                                                             *)

\* Partial<JTLRecord> with no field set yet (line 118)
EmptyRecord ==
    [timestamp |-> <<>>, elapsed |-> <<>>, label |-> <<>>,
     responseCode |-> <<>>, success |-> <<>>, threadName |-> <<>>,
     failureMessage |-> <<>>, bytes |-> <<>>, sentBytes |-> <<>>,
     latency |-> <<>>, url |-> <<>>]

\* the normalised header names the switch of mapFieldToRecord dispatches on
FieldNames ==
    [timestamp |->
        {<<"t","i","m","e","s","t","a","m","p">>, <<"t","i","m","s","t","a","m","p">>, <<"t","i","m","e">>},
     elapsed |->
        {<<"e","l","a","p","s","e","d">>, <<"r","e","s","p","o","n","s","e","t","i","m","e">>, <<"r","t">>},
     label |->
        {<<"l","a","b","e","l">>, <<"s","a","m","p","l","e","r">>, <<"n","a","m","e">>},
     responseCode |->
        {<<"r","e","s","p","o","n","s","e","c","o","d","e">>, <<"r","e","s","p","o","n","s","e","m","e","s","s","a","g","e">>, <<"c","o","d","e">>, <<"s","t","a","t","u","s">>},
     success |->
        {<<"s","u","c","c","e","s","s">>, <<"r","e","s","u","l","t">>},
     threadName |->
        {<<"t","h","r","e","a","d","n","a","m","e">>, <<"t","h","r","e","a","d">>},
     failureMessage |->
        {<<"f","a","i","l","u","r","e","m","e","s","s","a","g","e">>, <<"e","r","r","o","r">>},
     bytes |->
        {<<"b","y","t","e","s">>, <<"s","i","z","e">>},
     sentBytes |->
        {<<"s","e","n","t","b","y","t","e","s">>, <<"r","e","q","u","e","s","t","s","i","z","e">>},
     latency |->
        {<<"l","a","t","e","n","c","y">>},
     url |->
        {<<"u","r","l">>}]

IsLowerAlnum(c) == c \in Range(LowerLetters) \/ IsDigit(c)

\* header.toLowerCase().replace(/[^a-z0-9]/g, '')
NormalizeHeader(header) == SelectSeq(toLowerCase(header), IsLowerAlnum)

\* mutation of NumberOrZero: a value that does not parse leaves the field
\* unset
NumberOrUnset(n) == n

\* parseInt(value) || 0
NumberOrZero(n) == IF n = <<>> THEN <<0>> ELSE n

\* mutation of ParseSuccess: any non-empty value counts as a success
TruthyValue(value) == value # <<>>

\* value.toLowerCase() === 'true' || value === '1'
ParseSuccess(value) == toLowerCase(value) = <<"t","r","u","e">> \/ value = <<"1">>

\* the switch of lines 219-276 on the normalised header name
MapField(headerLower, value, record) ==
    CASE headerLower \in FieldNames.timestamp ->
            IF parseInt(value) # <<>>
            THEN [record EXCEPT !.timestamp = parseInt(value)] ELSE record
      [] headerLower \in FieldNames.elapsed ->
            IF parseInt(value) # <<>>
            THEN [record EXCEPT !.elapsed = parseInt(value)] ELSE record
      [] headerLower \in FieldNames.label -> [record EXCEPT !.label = <<value>>]
      [] headerLower \in FieldNames.responseCode ->
            [record EXCEPT !.responseCode = <<value>>]
      [] headerLower \in FieldNames.success ->
            [record EXCEPT !.success = <<ParseSuccess(value)>>]
      [] headerLower \in FieldNames.threadName ->
            [record EXCEPT !.threadName = <<value>>]
      [] headerLower \in FieldNames.failureMessage ->
            [record EXCEPT !.failureMessage = <<value>>]
      [] headerLower \in FieldNames.bytes ->
            [record EXCEPT !.bytes = NumberOrZero(parseInt(value))]
      [] headerLower \in FieldNames.sentBytes ->
            [record EXCEPT !.sentBytes = NumberOrZero(parseInt(value))]
      [] headerLower \in FieldNames.latency ->
            [record EXCEPT !.latency = NumberOrZero(parseInt(value))]
      [] headerLower \in FieldNames.url -> [record EXCEPT !.url = <<value>>]
      [] OTHER -> record

\* JTLParser.mapFieldToRecord: the record after the switch
mapFieldToRecord(header, value, record) ==
    MapField(NormalizeHeader(header), value, record)

\* headers.forEach((header, index) => ...) of lines 120-127
RECURSIVE MapRowFrom(_, _, _, _)
MapRowFrom(headers, values, index, record) ==
    IF index > Len(headers) THEN record
    ELSE IF index > Len(values)
    THEN MapRowFrom(headers, values, index + 1, record)
    ELSE IF trim(values[index]) = <<>>
    THEN MapRowFrom(headers, values, index + 1, record)
    ELSE MapRowFrom(headers, values, index + 1,
                    mapFieldToRecord(headers[index], trim(values[index]),
                                     record))

MapRow(headers, values) == MapRowFrom(headers, values, 1, EmptyRecord)

----------------------------------------------------------------------------
(* Row validation and defaulting                                            *)

\* JavaScript truthiness of an optional number / an optional string
TruthyNum(o) == o # <<>> /\ o[1] # 0
TruthyStr(o) == o # <<>> /\ o[1] # <<>>

\* lines 130-132
hasTimeData(record) == TruthyNum(record.timestamp) \/ record.elapsed # <<>>
hasLabel(record) == TruthyStr(record.label)
hasResponseData(record) ==
    TruthyStr(record.responseCode) \/ record.success # <<>>

\* a mutation of IsValidRow: either test is enough
TimeDataOrOther(record) ==
    hasTimeData(record) \/ hasLabel(record) \/ hasResponseData(record)

\* line 134
IsValidRow(record) ==
    hasTimeData(record) /\ (hasLabel(record) \/ hasResponseData(record))

DefaultElapsed == 100
SyntheticStepMs == 1000
MinFields == 3
DefaultLabel == <<"U","n","k","n","o","w","n">>
DefaultResponseCode == <<"2","0","0">>
DefaultThreadName == <<"T","h","r","e","a","d"," ","G","r","o","u","p"," ","1","-","1">>

\* lines 136-145: defaults for the fields the mapping left unset; `now` is
\* what Date.now() returns at this row, `accepted` is this.records.length
\* lines 136-138
FillTimestamp(record, now, accepted) ==
    IF ~TruthyNum(record.timestamp) /\ record.elapsed # <<>>
    THEN [record EXCEPT !.timestamp = <<now - accepted * SyntheticStepMs>>]
    ELSE record

\* lines 139-141
FillElapsed(record) ==
    IF record.elapsed = <<>> /\ TruthyNum(record.timestamp)
    THEN [record EXCEPT !.elapsed = <<DefaultElapsed>>]
    ELSE record

\* lines 142-145
FillLabel(record) ==
    IF ~TruthyStr(record.label)
    THEN [record EXCEPT !.label = <<DefaultLabel>>] ELSE record

FillResponseCode(record) ==
    IF ~TruthyStr(record.responseCode)
    THEN [record EXCEPT !.responseCode = <<DefaultResponseCode>>] ELSE record

FillSuccess(record) ==
    IF record.success = <<>>
    THEN [record EXCEPT !.success = <<TRUE>>] ELSE record

FillThreadName(record) ==
    IF ~TruthyStr(record.threadName)
    THEN [record EXCEPT !.threadName = <<DefaultThreadName>>] ELSE record

FillDefaults(record, now, accepted) ==
    FillThreadName(FillSuccess(FillResponseCode(FillLabel(FillElapsed(
        FillTimestamp(record, now, accepted))))))

----------------------------------------------------------------------------
(* parseFile                                                                *)

Min(a, b) == IF a < b THEN a ELSE b
Max(a, b) == IF a > b THEN a ELSE b

TooFewLinesError == "File must contain at least a header and one data row"
NoValidRecordsError ==
    "No valid records found. Check file format and required fields."

\* Date.now() while row i of the file is processed: clock holds one reading
\* per line, never decreasing
Now(clock, i) == clock[Min(i, Len(clock))]

\* mutations of ClearRecords and ClearCache: the field is left as it was
KeepRecords(prev) == prev
KeepCache(prev) == prev

\* line 76: this.records = []
ClearRecords(prev) == <<>>

\* line 77: this.metricsCache = undefined
ClearCache(prev) == <<>>

\* a mutation of EnoughFields: one cell per header is required
AsManyAsHeaders(values, headers) == Len(values) >= Len(headers)

\* line 117: at least min(headers.length, 3) cells
EnoughFields(values, headers) == Len(values) >= Min(Len(headers), MinFields)

\* lines 110-155: the loop over the data lines. acc is the loop's state:
\* this.records, parsedRecords, validRecords and sampleRecord, and a trace of
\* the loop: for every line that was not skipped, its number, its cells, the
\* record the field mapping built and whether the record was pushed
\* lines 147-152: the record is pushed
Push(acc, full) ==
    [acc EXCEPT !.records = Append(@, full),
                !.validRecords = @ + 1,
                !.sampleRecord = IF @ = <<>> THEN <<full>> ELSE @]

\* line 115, and the trace of the row
Count(acc, i, values, record, accepted) ==
    [acc EXCEPT !.parsedRecords = @ + 1,
                !.trace = Append(@, [line |-> i, values |-> values,
                                     mapped |-> record,
                                     accepted |-> accepted])]

\* lines 117-153 for the record the cells map to
ParseRecord(values, record, headers, i, now, acc) ==
    IF EnoughFields(values, headers) /\ IsValidRow(record)
    THEN Push(Count(acc, i, values, record, TRUE),
              FillDefaults(record, now, Len(acc.records)))
    ELSE Count(acc, i, values, record, FALSE)

\* lines 115-153 for the cells of a line
ParseValues(values, headers, i, now, acc) ==
    ParseRecord(values, MapRow(headers, values), headers, i, now, acc)

\* lines 111-153: one pass of the loop body
ParseLine(line, i, headers, delimiter, now, acc) ==
    IF line = <<>> THEN acc
    ELSE ParseValues(parseRow(line, delimiter), headers, i, now, acc)

RECURSIVE ParseLines(_, _, _, _, _, _)
ParseLines(lines, i, headers, delimiter, clock, acc) ==
    IF i > Len(lines) THEN acc
    ELSE ParseLines(lines, i + 1, headers, delimiter, clock,
                    ParseLine(trim(lines[i]), i, headers, delimiter,
                              Now(clock, i), acc))

\* a mutation of TooFewLinesResult: the short text is accepted
TooFewLinesAccepted(lines) ==
    [success |-> TRUE,
     records |-> <<>>,
     error |-> <<>>,
     debugInfo |-> [totalLines |-> Len(lines),
                    headerLine |-> lines[1],
                    detectedHeaders |-> <<>>,
                    detectedDelimiter |-> <<>>,
                    parsedRecords |-> 0,
                    validRecords |-> 0,
                    sampleRecord |-> <<>>]]

\* lines 80-95: the result of the structural failure
TooFewLinesResult(lines) ==
    [success |-> FALSE,
     records |-> <<>>,
     error |-> <<TooFewLinesError>>,
     debugInfo |-> [totalLines |-> Len(lines),
                    headerLine |-> lines[1],
                    detectedHeaders |-> <<>>,
                    detectedDelimiter |-> <<>>,
                    parsedRecords |-> 0,
                    validRecords |-> 0,
                    sampleRecord |-> <<>>]]

\* a mutation of LoopResult: success whatever the loop retained
LoopAlwaysSucceeds(lines, headers, delimiter, acc) ==
    [success |-> TRUE,
     records |-> acc.records,
     error |-> IF acc.validRecords = 0 THEN <<NoValidRecordsError>> ELSE <<>>,
     debugInfo |-> [totalLines |-> Len(lines),
                    headerLine |-> lines[1],
                    detectedHeaders |-> headers,
                    detectedDelimiter |-> <<delimiter>>,
                    parsedRecords |-> acc.parsedRecords,
                    validRecords |-> acc.validRecords,
                    sampleRecord |-> acc.sampleRecord]]

\* lines 159-172: the result of a parse that reached the loop
LoopResult(lines, headers, delimiter, acc) ==
    [success |-> acc.validRecords > 0,
     records |-> acc.records,
     error |-> IF acc.validRecords = 0 THEN <<NoValidRecordsError>> ELSE <<>>,
     debugInfo |-> [totalLines |-> Len(lines),
                    headerLine |-> lines[1],
                    detectedHeaders |-> headers,
                    detectedDelimiter |-> <<delimiter>>,
                    parsedRecords |-> acc.parsedRecords,
                    validRecords |-> acc.validRecords,
                    sampleRecord |-> acc.sampleRecord]]

\* lines 80-172 for one text and one clock: the lines, the loop's final
\* state (<<>> when the loop is not reached) and the result
\* lines 105-108: the loop's state before the first row
LoopStart ==
    [records |-> <<>>, parsedRecords |-> 0, validRecords |-> 0,
     sampleRecord |-> <<>>, trace |-> <<>>]

LoopOutcome(lines, headers, delimiter, acc) ==
    [acc |-> <<acc>>, result |-> LoopResult(lines, headers, delimiter, acc)]

\* lines 99-172, the header's cells being known
ParseWithHeaders(lines, headers, delimiter, clock) ==
    LoopOutcome(lines, headers, delimiter,
                ParseLines(lines, 2, headers, delimiter, clock, LoopStart))

\* lines 97-172, the delimiter being known
ParseWithDelimiter(lines, delimiter, clock) ==
    ParseWithHeaders(lines, parseRow(lines[1], delimiter), delimiter, clock)

ParseContentLines(lines, clock) ==
    IF Len(lines) < 2
    THEN [acc |-> <<>>, result |-> TooFewLinesResult(lines)]
    ELSE ParseWithDelimiter(lines, detectDelimiter(lines[1]), clock)

\* line 80: content.trim().split('\n')
ParseOutcome(content, clock) ==
    ParseContentLines(split(trim(content), NL), clock)

\* line 174: this.lastParseResult = result
StoreResult(prev, result) == <<result>>

\* JTLParser.parseFile as a function of the object's fields before the call
\* (prev) and of what the text parses to (ParseOutcome): the fields after
\* the call and the result
\* lines 76-77
Cleared(prev) ==
    [prev EXCEPT !.records = ClearRecords(prev.records),
                 !.metricsCache = ClearCache(prev.metricsCache)]

parseFile(prev, outcome) ==
    IF outcome.acc = <<>>
    THEN [this |-> Cleared(prev), result |-> outcome.result]
    ELSE [this |-> [Cleared(prev) EXCEPT
                        !.records = outcome.acc[1].records,
                        !.lastParseResult =
                            StoreResult(prev.lastParseResult,
                                        outcome.result)],
          result |-> outcome.result]

----------------------------------------------------------------------------
(* Arithmetic helpers                                                       *)

\* Math.round(a / b) for b > 0: the nearest integer, halves towards +infinity
RoundDiv(a, b) == (2 * a + b) \div (2 * b)

\* Math.ceil(a / b) for b > 0 (\div rounds towards minus infinity)
CeilDiv(a, b) == -((-a) \div b)

RECURSIVE SumSeq(_)
SumSeq(s) == IF s = <<>> THEN 0 ELSE Head(s) + SumSeq(Tail(s))

\* Math.max(...s) and Math.min(...s) of a non-empty sequence
MaxOf(s) == CHOOSE x \in Range(s) : \A y \in Range(s) : y <= x
MinOf(s) == CHOOSE x \in Range(s) : \A y \in Range(s) : x <= y

\* [...s].sort((a, b) => a - b)
RECURSIVE InsertSorted(_, _)
InsertSorted(x, s) ==
    IF s = <<>> THEN <<x>>
    ELSE IF x < Head(s) THEN <<x>> \o s
    ELSE <<Head(s)>> \o InsertSorted(x, Tail(s))

RECURSIVE SortAsc(_)
SortAsc(s) ==
    IF s = <<>> THEN <<>>
    ELSE InsertSorted(s[Len(s)], SortAsc(SubSeq(s, 1, Len(s) - 1)))

\* the values of the defined elements of a sequence of optional values,
\* in order
RECURSIVE Defined(_)
Defined(os) ==
    IF os = <<>> THEN <<>>
    ELSE Head(os) \o Defined(Tail(os))

----------------------------------------------------------------------------
(* calculatePercentile and calculateMetrics                                 *)

\* the two-decimal scale of Math.round(x * 100) / 100
Hundredths == 100
FullPercent == 100
MsPerSecond == 1000

\* a mutation of PercentileIndex: the rank is not turned into an index
RankAsIndex(n, percentile) == CeilDiv(percentile * n, FullPercent)

\* line 431: Math.ceil((percentile / 100) * sortedArray.length) - 1
PercentileIndex(n, percentile) == CeilDiv(percentile * n, FullPercent) - 1

\* x || 0 for a number x
OrZero(x) == IF x # 0 THEN x ELSE 0

\* JTLParser.calculatePercentile; sortedArray[k] of the code is
\* sortedArray[k + 1] here
calculatePercentile(sortedArray, percentile) ==
    IF sortedArray = <<>> THEN 0
    ELSE IF percentile <= 0 THEN sortedArray[1]
    ELSE IF percentile >= FullPercent THEN sortedArray[Len(sortedArray)]
    ELSE OrZero(sortedArray[
            Max(0, Min(PercentileIndex(Len(sortedArray), percentile),
                       Len(sortedArray) - 1)) + 1])

\* lines 297-313
ZeroMetrics ==
    [avgResponseTime |-> 0, maxResponseTime |-> 0, minResponseTime |-> 0,
     throughput |-> 0, errorRate |-> 0, totalRequests |-> 0,
     successfulRequests |-> 0, failedRequests |-> 0,
     p90ResponseTime |-> 0, p95ResponseTime |-> 0, p99ResponseTime |-> 0,
     transactionsPerSecond |-> 0, testDuration |-> 0,
     avgConnectTime |-> 0, avgLatency |-> 0]

\* a mutation of NoResponseTimesMetrics: the result of the empty collection
ZeroMetricsFor(recs) == ZeroMetrics

\* lines 336-352: records exist but no elapsed value is usable
NoResponseTimesMetrics(recs) ==
    [ZeroMetrics EXCEPT !.errorRate = FullPercent * Hundredths,
                        !.totalRequests = Len(recs),
                        !.failedRequests = Len(recs)]

\* r.latency || 0
LatencyOrZero(r) == IF TruthyNum(r.latency) THEN r.latency[1] ELSE 0
\* r.bytes || 0
BytesOrZero(r) == IF TruthyNum(r.bytes) THEN r.bytes[1] ELSE 0
NonNegative(x) == x >= 0
Positive(x) == x > 0
\* a mutation of IsSuccess: every record counts as successful
Succeeded(r) == TRUE
IsSuccess(r) == r.success = <<TRUE>>

\* lines 374-380: this.records.map(r => r.latency || 0).filter(t => t >= 0)
Latencies(recs) ==
    SelectSeq([i \in DOMAIN recs |-> LatencyOrZero(recs[i])], NonNegative)

\* lines 321-327
ResponseTimes(recs) ==
    SelectSeq(Defined([i \in DOMAIN recs |-> recs[i].elapsed]), NonNegative)

\* lines 362-371, in milliseconds
SpanMs(timestamps) ==
    IF Len(timestamps) > 1
    THEN MaxOf(timestamps) - MinOf(timestamps)
    ELSE MsPerSecond

TestDurationMs(recs) ==
    SpanMs(SelectSeq(Defined([i \in DOMAIN recs |-> recs[i].timestamp]),
                     Positive))

\* a mutation of ErrorRate: truncated, not rounded
ErrorRateTruncated(failedRequests, total) ==
    (failedRequests * FullPercent * Hundredths) \div total

\* line 387
ErrorRate(failedRequests, total) ==
    RoundDiv(failedRequests * FullPercent * Hundredths, total)

\* a mutation of Throughput: a duration of zero counts as one second
ThroughputPerSecond(total, durationMs) ==
    RoundDiv(total * MsPerSecond * Hundredths,
             IF durationMs > 0 THEN durationMs ELSE MsPerSecond)

\* lines 386 and 394: records per second, in hundredths
Throughput(total, durationMs) ==
    IF durationMs > 0
    THEN RoundDiv(total * MsPerSecond * Hundredths, durationMs)
    ELSE 0

\* lines 396-397
AvgRounded(s) == IF Len(s) > 0 THEN RoundDiv(SumSeq(s), Len(s)) ELSE 0

\* lines 382-398: the metrics object, from the values of lines 355-380
MetricsOf(total, responseTimes, sortedResponseTimes, successfulRequests, durationMs, connectTimes, latencies) ==
    [avgResponseTime |-> RoundDiv(SumSeq(responseTimes), Len(responseTimes)),
     maxResponseTime |-> MaxOf(responseTimes),
     minResponseTime |-> MinOf(responseTimes),
     throughput |-> Throughput(total, durationMs),
     errorRate |-> ErrorRate(total - successfulRequests, total),
     totalRequests |-> total,
     successfulRequests |-> successfulRequests,
     failedRequests |-> total - successfulRequests,
     p90ResponseTime |-> calculatePercentile(sortedResponseTimes, 90),
     p95ResponseTime |-> calculatePercentile(sortedResponseTimes, 95),
     p99ResponseTime |-> calculatePercentile(sortedResponseTimes, 99),
     transactionsPerSecond |-> Throughput(total, durationMs),
     testDuration |-> RoundDiv(durationMs * Hundredths, MsPerSecond),
     avgConnectTime |-> AvgRounded(connectTimes),
     avgLatency |-> AvgRounded(latencies)]

MetricsFrom(recs, responseTimes) ==
    MetricsOf(Len(recs), responseTimes, SortAsc(responseTimes),
              Len(SelectSeq(recs, IsSuccess)), TestDurationMs(recs),
              Latencies(recs), Latencies(recs))

\* lines 355-398
FullMetrics(recs) == MetricsFrom(recs, ResponseTimes(recs))

\* line 401: this.metricsCache = metrics
StoreCache(metrics) == <<metrics>>

\* mutation of calculateMetrics: the filter of lines 321-327 is applied to
\* this.records itself
calculateMetricsFiltering(this) ==
    LET Usable(r) == r.elapsed # <<>> /\ r.elapsed[1] >= 0
    IN  IF this.metricsCache # <<>>
        THEN [this |-> this, result |-> this.metricsCache[1]]
        ELSE IF Len(this.records) = 0
        THEN [this |-> this, result |-> ZeroMetrics]
        ELSE IF Len(ResponseTimes(this.records)) = 0
        THEN [this |-> this, result |-> NoResponseTimesMetrics(this.records)]
        ELSE [this |-> [this EXCEPT
                            !.metricsCache =
                                StoreCache(FullMetrics(this.records)),
                            !.records = SelectSeq(@, Usable)],
              result |-> FullMetrics(this.records)]

\* JTLParser.calculateMetrics as a function of the object's fields: the
\* fields after the call and the result
calculateMetrics(this) ==
    IF this.metricsCache # <<>>
    THEN [this |-> this, result |-> this.metricsCache[1]]
    ELSE IF Len(this.records) = 0
    THEN [this |-> this, result |-> ZeroMetrics]
    ELSE IF Len(ResponseTimes(this.records)) = 0
    THEN [this |-> this, result |-> NoResponseTimesMetrics(this.records)]
    ELSE [this |-> [this EXCEPT !.metricsCache =
                                    StoreCache(FullMetrics(this.records))],
          result |-> FullMetrics(this.records)]

----------------------------------------------------------------------------
(* generateChartData                                                        *)

DefaultBucketSize == 30
KilobyteBytes == 1024
Tenths == 10

TwoDigits(n) == <<DigitChars[(n \div 10) + 1], DigitChars[(n % 10) + 1]>>
Decimal(n) == IF n < 10 THEN <<DigitChars[n + 1]>> ELSE TwoDigits(n)

\* new Date(ms).toLocaleTimeString() in the en-US locale and the UTC time
\* zone: "h:mm:ss AM" or "h:mm:ss PM"
toLocaleTimeString(ms) ==
    LET secs == ms \div MsPerSecond
        ss == secs % 60
        mm == (secs \div 60) % 60
        hh == (secs \div 3600) % 24
        h12 == IF hh % 12 = 0 THEN 12 ELSE hh % 12
    IN  Decimal(h12) \o <<":">> \o TwoDigits(mm) \o <<":">> \o TwoDigits(ss)
        \o <<SPACE>> \o (IF hh < 12 THEN <<"A">> ELSE <<"P">>)
        \o <<"M">>

\* the collation rank of the characters of a time label: white space, then
\* punctuation, then digits, then letters
CollationRank(c) ==
    IF c = SPACE THEN 0
    ELSE IF c = ":" THEN 1
    ELSE IF IsDigit(c) THEN 2 + DigitVal(c)
    ELSE 12 + (CHOOSE i \in DOMAIN UpperLetters : UpperLetters[i] = c)

\* a.localeCompare(b) < 0 on time labels
RECURSIVE LabelBefore(_, _)
LabelBefore(a, b) ==
    IF b = <<>> THEN FALSE
    ELSE IF a = <<>> THEN TRUE
    ELSE IF CollationRank(Head(a)) # CollationRank(Head(b))
    THEN CollationRank(Head(a)) < CollationRank(Head(b))
    ELSE LabelBefore(Tail(a), Tail(b))

\* chartData.sort((a, b) => a.timestamp.localeCompare(b.timestamp)): a
\* stable sort
RECURSIVE InsertPoint(_, _)
InsertPoint(pt, s) ==
    IF s = <<>> THEN <<pt>>
    ELSE IF LabelBefore(pt.timestamp, Head(s).timestamp) THEN <<pt>> \o s
    ELSE <<Head(s)>> \o InsertPoint(pt, Tail(s))

RECURSIVE SortPoints(_)
SortPoints(s) ==
    IF s = <<>> THEN <<>>
    ELSE InsertPoint(s[Len(s)], SortPoints(SubSeq(s, 1, Len(s) - 1)))

\* a mutation of IsValidRecord: the sign of the timestamp is not tested
AnyTimestamp(r) == TruthyNum(r.timestamp) /\ r.elapsed # <<>>

\* lines 441-447
IsValidRecord(r) ==
    TruthyNum(r.timestamp) /\ r.timestamp[1] > 0 /\ r.elapsed # <<>>

ValidRecords(recs) == SelectSeq(recs, IsValidRecord)

\* a JavaScript number that may be non-finite: the quotient num / den, with
\* x / 0 being NaN for x = 0, Infinity for x > 0 and -Infinity for x < 0
Quotient(num, den) ==
    IF den # 0 THEN [kind |-> "finite", num |-> num, den |-> den]
    ELSE IF num = 0 THEN [kind |-> "NaN", num |-> 0, den |-> 0]
    ELSE IF num > 0 THEN [kind |-> "Infinity", num |-> 0, den |-> 0]
    ELSE [kind |-> "-Infinity", num |-> 0, den |-> 0]

\* lines 457-471: the single point of the zero-span case. throughput is in
\* tenths, successRate in hundredths, bandwidth a quotient; samples is the
\* number of records the point stands for
SinglePoint(first, validRecords, minTimestamp, bucketSize) ==
    [timestamp |-> toLocaleTimeString(minTimestamp),
     samples |-> Len(validRecords),
     responseTime |-> first.elapsed[1],
     throughput |-> Len(validRecords) * Tenths,
     errors |-> Len(validRecords) - Len(SelectSeq(validRecords, IsSuccess)),
     minResponseTime |-> first.elapsed[1],
     maxResponseTime |-> first.elapsed[1],
     p90ResponseTime |-> first.elapsed[1],
     p95ResponseTime |-> first.elapsed[1],
     p99ResponseTime |-> first.elapsed[1],
     successRate |-> FullPercent * Hundredths,
     avgConnectTime |-> LatencyOrZero(first),
     avgLatency |-> LatencyOrZero(first),
     bandwidth |-> Quotient(BytesOrZero(first), bucketSize)]

\* line 480
BucketKey(timestamp, minTimestamp, bucketDuration) ==
    (timestamp - minTimestamp) \div bucketDuration

\* lines 483-487: a key is added to the Map once, a negative key never
WithKey(keys, bucketKey) ==
    IF bucketKey < 0 \/ bucketKey \in Range(keys)
    THEN keys ELSE Append(keys, bucketKey)

\* lines 478-497: the keys of the Map in insertion order
RECURSIVE BucketKeys(_, _, _, _)
BucketKeys(validRecords, minTimestamp, bucketDuration, keys) ==
    IF validRecords = <<>> THEN keys
    ELSE BucketKeys(Tail(validRecords), minTimestamp, bucketDuration,
                    WithKey(keys, BucketKey(Head(validRecords).timestamp[1],
                                            minTimestamp, bucketDuration)))

\* lines 478-497: the records of one bucket, in insertion order
BucketRecords(validRecords, minTimestamp, bucketDuration, bucketKey) ==
    LET InBucket(r) ==
            BucketKey(r.timestamp[1], minTimestamp, bucketDuration) = bucketKey
    IN  SelectSeq(validRecords, InBucket)

\* lines 502-539: the chart point of one bucket. Kept with the point, for
\* the properties: the bucket's key in the Map and the number of its
\* responses (bucket.responses.length)
PointOf(bucketKey, timestamp, responses, sortedResponses, errors, latencies, bytes, bucketSize) ==
    [timestamp |-> toLocaleTimeString(timestamp),
     bucketKey |-> bucketKey,
     samples |-> Len(responses),
     responseTime |-> RoundDiv(SumSeq(responses), Len(responses)),
     throughput |-> RoundDiv(Len(responses) * Tenths, bucketSize),
     errors |-> errors,
     minResponseTime |-> sortedResponses[1],
     maxResponseTime |-> sortedResponses[Len(sortedResponses)],
     p90ResponseTime |-> calculatePercentile(sortedResponses, 90),
     p95ResponseTime |-> calculatePercentile(sortedResponses, 95),
     p99ResponseTime |-> calculatePercentile(sortedResponses, 99),
     successRate |-> RoundDiv((Len(responses) - errors)
                                  * FullPercent * Hundredths,
                              Len(responses)),
     avgConnectTime |-> RoundDiv(SumSeq(latencies), Len(latencies)),
     avgLatency |-> RoundDiv(SumSeq(latencies), Len(latencies)),
     bandwidth |-> Quotient(RoundDiv(SumSeq(bytes) * Hundredths,
                                     bucketSize * KilobyteBytes),
                            Hundredths)]

\* line 490: bucket.responses
Responses(members) == [i \in DOMAIN members |-> members[i].elapsed[1]]

\* lines 489-496 and 505: what the records of a bucket contribute to it
BucketPoint(members, bucketKey, minTimestamp, bucketSize) ==
    PointOf(bucketKey,
            minTimestamp + bucketKey * bucketSize * MsPerSecond,
            Responses(members), SortAsc(Responses(members)),
            Len(members) - Len(SelectSeq(members, IsSuccess)),
            [i \in DOMAIN members |-> LatencyOrZero(members[i])],
            [i \in DOMAIN members |-> BytesOrZero(members[i])],
            bucketSize)

\* JTLParser.generateChartData: the result (the object is not changed)
\* lines 500-540: one point per bucket, in the Map's order
ChartPoints(validRecords, minTimestamp, bucketSize, keys) ==
    [k \in DOMAIN keys |->
        BucketPoint(BucketRecords(validRecords, minTimestamp,
                                  bucketSize * MsPerSecond, keys[k]),
                    keys[k], minTimestamp, bucketSize)]

\* lines 455-542, the extreme timestamps being known
ChartBetween(validRecords, minTimestamp, maxTimestamp, bucketSize) ==
    IF bucketSize <= 0 \/ minTimestamp >= maxTimestamp
    THEN <<SinglePoint(validRecords[1], validRecords, minTimestamp,
                       bucketSize)>>
    ELSE SortPoints(
            ChartPoints(validRecords, minTimestamp, bucketSize,
                        BucketKeys(validRecords, minTimestamp,
                                   bucketSize * MsPerSecond, <<>>)))

\* line 451
Timestamps(validRecords) ==
    [i \in DOMAIN validRecords |-> validRecords[i].timestamp[1]]

\* lines 449-542, the valid records being known
ChartOf(validRecords, bucketSize) ==
    IF Len(validRecords) = 0 THEN <<>>
    ELSE ChartBetween(validRecords, MinOf(Timestamps(validRecords)),
                      MaxOf(Timestamps(validRecords)), bucketSize)

generateChartData(this, bucketSize) ==
    IF Len(this.records) = 0 THEN <<>>
    ELSE ChartOf(ValidRecords(this.records), bucketSize)

----------------------------------------------------------------------------
(* getTransactionBreakdown                                                  *)

\* line 554: the statistics of a label not seen yet. avgTime is a number
\* that need not be an integer: it is held as the fraction avgNum / avgDen
NewStats == [count |-> 0, avgNum |-> 0, avgDen |-> 1, errorCount |-> 0]

\* mutation of AddRecord: the old average is weighted by the new count
AddRecordWeighedByCount(stats, record) ==
    [count |-> stats.count + 1,
     avgNum |-> stats.avgNum * (stats.count + 1)
                    + record.elapsed[1] * stats.avgDen,
     avgDen |-> stats.avgDen * (stats.count + 1),
     errorCount |-> stats.errorCount
                        + (IF record.success = <<TRUE>> THEN 0 ELSE 1)]

\* lines 558-562: stats.count++, then
\* avgTime = (avgTime * (count - 1) + record.elapsed) / count, then
\* errorCount++ unless record.success is true
AddRecord(stats, record) ==
    [count |-> stats.count + 1,
     avgNum |-> stats.avgNum * stats.count + record.elapsed[1] * stats.avgDen,
     avgDen |-> stats.avgDen * (stats.count + 1),
     errorCount |-> stats.errorCount
                        + (IF record.success = <<TRUE>> THEN 0 ELSE 1)]

\* lines 553-555: the Map, its entries in insertion order, with an entry for
\* the label
WithLabel(breakdown, label) ==
    IF \E i \in DOMAIN breakdown : breakdown[i].label = label
    THEN breakdown
    ELSE Append(breakdown, [label |-> label, stats |-> NewStats])

\* lines 557-562: the record added to the entry of its label
Counted(breakdown, record) ==
    [i \in DOMAIN breakdown |->
        IF breakdown[i].label = record.label
        THEN [breakdown[i] EXCEPT !.stats = AddRecord(@, record)]
        ELSE breakdown[i]]

\* lines 552-563
RECURSIVE Rollup(_, _)
Rollup(recs, breakdown) ==
    IF recs = <<>> THEN breakdown
    ELSE Rollup(Tail(recs),
                Counted(WithLabel(breakdown, Head(recs).label), Head(recs)))

\* lines 565-571: the row of one label; errorRate is not rounded. Kept with
\* the row, for the properties: avgTime, the average before Math.round
TransactionRow(entry) ==
    [label |-> entry.label,
     count |-> entry.stats.count,
     avgResponseTime |-> RoundDiv(entry.stats.avgNum, entry.stats.avgDen),
     errorRate |-> Quotient(entry.stats.errorCount * FullPercent,
                            entry.stats.count),
     errorCount |-> entry.stats.errorCount,
     avgTime |-> Quotient(entry.stats.avgNum, entry.stats.avgDen)]

TransactionRows(breakdown) ==
    [i \in DOMAIN breakdown |-> TransactionRow(breakdown[i])]

\* JTLParser.getTransactionBreakdown
getTransactionBreakdown(this) == TransactionRows(Rollup(this.records, <<>>))

----------------------------------------------------------------------------
(* getTopErrors: the error analysis the page asks the parser for. The       *)
(* method is not in the parser's source; it is modelled from section 4.7 of *)
(* the specification                                                        *)

\* the distinct values of a sequence, in the order of their first occurrence
Distinct(values) ==
    LET First(i) == \A j \in 1..(i - 1) : values[j] # values[i]
    IN  CharsAt(values, SelectSeq(Indices(Len(values)), First))

\* the group of one response code: its occurrence count, its percentage of
\* the failed records, the first non-empty failure message (<<>> stands for
\* the fallback), and the labels affected
ErrorGroup(failed, responseCode) ==
    LET InGroup(r) == r.responseCode = responseCode
        HasMessage(r) == TruthyStr(r.failureMessage)
    IN  [responseCode |-> responseCode,
         count |-> Len(SelectSeq(failed, InGroup)),
         percentage |-> Quotient(Len(SelectSeq(failed, InGroup)) * FullPercent,
                                 Len(failed)),
         errorMessage |->
            IF SelectSeq(SelectSeq(failed, InGroup), HasMessage) = <<>>
            THEN <<>>
            ELSE SelectSeq(SelectSeq(failed, InGroup),
                           HasMessage)[1].failureMessage,
         affectedTransactions |->
            Distinct([i \in DOMAIN SelectSeq(failed, InGroup) |->
                        SelectSeq(failed, InGroup)[i].label])]

\* sorted by occurrence count, descending; groups of equal count keep their
\* order
RECURSIVE InsertGroup(_, _)
InsertGroup(group, sorted) ==
    IF sorted = <<>> THEN <<group>>
    ELSE IF group.count > Head(sorted).count THEN <<group>> \o sorted
    ELSE <<Head(sorted)>> \o InsertGroup(group, Tail(sorted))

RECURSIVE SortGroups(_)
SortGroups(groups) ==
    IF groups = <<>> THEN <<>>
    ELSE InsertGroup(groups[Len(groups)],
                     SortGroups(SubSeq(groups, 1, Len(groups) - 1)))

\* the groups of the failed records, one per response code
ErrorGroups(failed, codes) ==
    SortGroups([k \in DOMAIN codes |-> ErrorGroup(failed, codes[k])])

\* mutation of IsFailed: every record is taken into the analysis
AnyRecord(r) == TRUE

\* a failed record: one whose success is not true
IsFailed(r) == r.success # <<TRUE>>

getTopErrors(this) ==
    ErrorGroups(SelectSeq(this.records, IsFailed),
                Distinct([i \in DOMAIN SelectSeq(this.records, IsFailed) |->
                            SelectSeq(this.records, IsFailed)[i].responseCode]))

----------------------------------------------------------------------------
(* Inputs                                                                   *)

\* the most data rows of a text, and of a text of the narrow three-column
\* layout
MaxRows == 3
MaxTallRows == 3
\* Date.now() at the first row of a parse, and the two paces of the clock
\* during a parse: standing still, or advancing ClockStepMs per line
ClockStartMs == 90000
ClockStepMs == 1000

RECURSIVE JoinWith(_, _)
JoinWith(pieces, sep) ==
    IF pieces = <<>> THEN <<>>
    ELSE IF Len(pieces) = 1 THEN pieces[1]
    ELSE pieces[1] \o <<sep>> \o JoinWith(Tail(pieces), sep)

\* the sequences of at most n elements of S
SeqsUpTo(S, n) == UNION {[1..k -> S] : k \in 0..n}

\* the reference header, tab-delimited; its rows: two complete ones, two
\* with timestamp 0 and the last cell missing, one without a number
HeaderFull ==
    <<"t","i","m","e","s","t","a","m","p",TAB,"e","l","a","p","s","e","d",TAB,"l","a","b","e","l",TAB,"r","e","s","p","o","n","s","e","C","o","d","e",TAB,"s","u","c","c","e","s","s",TAB,"t","h","r","e","a","d","N","a","m","e">>
RowsFull ==
    <<<<"1","0","0","0",TAB,"1","0","0",TAB,"L","o","g","i","n",TAB,"2","0","0",TAB,"t","r","u","e",TAB,"T","1","-","1">>,
     <<"2","0","0","0",TAB,"2","0","0",TAB,"L","o","g","i","n",TAB,"5","0","0",TAB,"f","a","l","s","e",TAB,"T","1","-","1">>,
     <<"0",TAB,"3","0","0",TAB,"H","o","m","e",TAB,"4","0","4",TAB,"f","a","l","s","e",TAB>>,
     <<"0",TAB,"3","0","0",TAB,"H","o","m","e",TAB,"4","0","4",TAB,"f","a","l","s","e",TAB>>,
     <<"a","b","c",TAB,"x",TAB,"L","o","g","i","n",TAB,"2","0","0",TAB,"t","r","u","e",TAB,"T","1","-","1">>>>

\* time columns only, tab-delimited
HeaderTimes == <<"t","i","m","e","s","t","a","m","p",TAB,"e","l","a","p","s","e","d">>
RowsTimes == <<<<"1","0","0","0",TAB,"1","0","0">>, <<"2","0","0","0",TAB,"2","0","0">>>>

\* JMeter's CSV header spelling, comma-delimited, with bytes and latency
HeaderCsv == <<"t","i","m","e","S","t","a","m","p",",","e","l","a","p","s","e","d",",","l","a","b","e","l",",","s","u","c","c","e","s","s",",","b","y","t","e","s",",","L","a","t","e","n","c","y">>
RowsCsv ==
    <<<<"1","0","0","0",",","1","0","0",",","L","o","g","i","n",",","t","r","u","e",",","2","0","4","8",",","1","0">>,
     <<"3","1","0","0","0",",","3","0","0",",","H","o","m","e",",","f","a","l","s","e",",","a","b","c",",","-","3">>,
     <<",","5","0",",","H","o","m","e",",","1",",","5","1","2",",">>>>

\* the narrow layout, semicolon-delimited; two of its rows share a
\* timestamp, two have a negative timestamp and a negative elapsed
HeaderTall == <<"t","i","m","e","S","t","a","m","p",";","e","l","a","p","s","e","d",";","s","u","c","c","e","s","s">>
RowsTall ==
    <<<<"1","0","0","0",";","1","0","0",";","t","r","u","e">>,
      <<"3","1","0","0","0",";","2","5","0",";","f","a","l","s","e">>,
      <<"3","1","0","0","0",";","4","0","0",";","f","a","l","s","e">>,
      <<"-","7","0","0","0",";","-","5",";","T","R","U","E">>,
      <<"-","8","0","0","0",";","-","9",";","f","a","l","s","e">>>>

\* the rows at the positions in I, in order
Selected(rows, I) ==
    LET Chosen(i) == i \in I
    IN  CharsAt(rows, SelectSeq(Indices(Len(rows)), Chosen))

\* the texts made of the header and at most n of the rows, in their order
FilesOf(header, rows, n) ==
    {JoinWith(<<header>> \o Selected(rows, I), NL) :
        I \in {J \in SUBSET DOMAIN rows : Cardinality(J) <= n}}

\* a text without a timestamp column: both of its rows get a synthetic
\* timestamp
TextUntimed ==
    <<"e","l","a","p","s","e","d",TAB,"l","a","b","e","l",TAB,"s","u","c","c","e","s","s",NL,
      "1","0","0",TAB,"L","o","g","i","n",TAB,"t","r","u","e",NL,
      "2","0","0",TAB,"L","o","g","i","n",TAB,"f","a","l","s","e">>

\* a text with cells that are not numbers in its numeric columns: the
\* timestamp, bytes, sentBytes and latency of its first row, the elapsed of
\* its second
TextCoercion ==
    <<"t","i","m","e","S","t","a","m","p",",","e","l","a","p","s","e","d",",","l","a","b","e","l",",","b","y","t","e","s",",","s","e","n","t","B","y","t","e","s",",","L","a","t","e","n","c","y",NL,
      "a","b","c",",","7","0",",","L","o","g","i","n",",","x",",","y",",","z",NL,
      "1","0","0","0",",","n","/","a",",","H","o","m","e",",","1",",","2",",","3">>

\* a tab-delimited text whose row has an empty first cell
TextLeadingEmpty ==
    <<"t","i","m","e","S","t","a","m","p",TAB,"e","l","a","p","s","e","d",TAB,"l","a","b","e","l",TAB,"s","u","c","c","e","s","s",NL,
      TAB,"5","0",TAB,"H","o","m","e",TAB,"t","r","u","e">>

\* texts that are not header-plus-rows: empty, blank, a header with a
\* trailing line break, a blank line between header and row
OddContents ==
    {<<>>, <<SPACE, NL, SPACE>>,
     HeaderFull \o <<NL>>,
     HeaderTimes \o <<NL, NL>> \o <<"1","0","0","0",TAB,"1","0","0">>,
     TextUntimed, TextCoercion, TextLeadingEmpty}

Contents ==
    FilesOf(HeaderFull, RowsFull, MaxRows)
    \cup FilesOf(HeaderTimes, RowsTimes, MaxRows)
    \cup FilesOf(HeaderCsv, RowsCsv, MaxRows)
    \cup FilesOf(HeaderTall, RowsTall, MaxTallRows)
    \cup OddContents

\* one Date.now() reading per line of the text
ClockOf(step) ==
    [i \in 1..(MaxTallRows + 2) |-> ClockStartMs + (i - 1) * step]
SteadyClock == ClockOf(0)
Clocks == {SteadyClock, ClockOf(ClockStepMs)}

BucketSizes == {DefaultBucketSize, 0, -DefaultBucketSize}

----------------------------------------------------------------------------
(* The parser object as a state machine                                     *)

\* what parseFile may be given: a text, and the clock Date.now() reads
Inputs == Contents \X Clocks

\* what each of them parses to (f @@ <<>> is f, held as an explicit table)
ParseMemo == [in \in Inputs |-> ParseOutcome(in[1], in[2])] @@ <<>>

\* the parse called Date.now(): line 137 ran for some row
ReadsClock(outcome) ==
    /\ outcome.acc # <<>>
    /\ \E row \in Range(outcome.acc[1].trace) :
            row.accepted /\ ~TruthyNum(row.mapped.timestamp)

This ==
    [records |-> records, metricsCache |-> metricsCache,
     lastParseResult |-> lastParseResult]

\* new JTLParser(): lines 71-73
Init ==
    /\ records = <<>>
    /\ metricsCache = <<>>
    /\ lastParseResult = <<>>
    /\ input = <<>>
    /\ discarded = [records |-> FALSE, metricsCache |-> FALSE]
    /\ call = [op |-> "new"]
    /\ ret = <<>>
    /\ page = <<>>
    /\ app = <<>>

SetThis(this) ==
    /\ records' = this.records
    /\ metricsCache' = this.metricsCache
    /\ lastParseResult' = this.lastParseResult

\* parser.parseFile(content), Date.now() reading the clock during the call.
\* A parse that never reads the clock is the same under every clock: it is
\* taken under the steady one only
ParseFileCall ==
    \E in \in Inputs : \E outcome \in {ParseMemo[in]} :
    \E out \in {parseFile(This, outcome)} :
        /\ in[2] = SteadyClock \/ ReadsClock(outcome)
        /\ SetThis(out.this)
        /\ input' = <<in>>
        /\ discarded' = [records |-> records # <<>>,
                         metricsCache |-> metricsCache # <<>>]
        /\ call' = [op |-> "parseFile"]
        /\ ret' = out.result
        /\ UNCHANGED <<page, app>>

\* parser.calculateMetrics()
CalculateMetricsCall ==
    \E out \in {calculateMetrics(This)} :
        /\ SetThis(out.this)
        /\ call' = [op |-> "calculateMetrics"]
        /\ ret' = out.result
        /\ UNCHANGED <<input, discarded, page, app>>

\* parser.generateChartData(bucketSize)
GenerateChartDataCall ==
    \E bucketSize \in BucketSizes :
        /\ call' = [op |-> "generateChartData", bucketSize |-> bucketSize]
        /\ ret' = generateChartData(This, bucketSize)
        /\ UNCHANGED <<records, metricsCache, lastParseResult, input,
                       discarded, page, app>>

\* parser.getTransactionBreakdown()
GetTransactionBreakdownCall ==
    /\ call' = [op |-> "getTransactionBreakdown"]
    /\ ret' = getTransactionBreakdown(This)
    /\ UNCHANGED <<records, metricsCache, lastParseResult, input, discarded,
                 page, app>>

\* parser.getTopErrors()
GetTopErrorsCall ==
    /\ call' = [op |-> "getTopErrors"]
    /\ ret' = getTopErrors(This)
    /\ UNCHANGED <<records, metricsCache, lastParseResult, input, discarded,
                 page, app>>

\* one parser object, parseFile and calculateMetrics called in any order
Next == ParseFileCall \/ CalculateMetricsCall

Spec == Init /\ [][Next]_vars

\* a parser used as the application uses it (AppContext.tsx lines 38-39):
\* constructed, given one text, then asked for its views in any order
FirstParseFileCall == call.op = "new" /\ ParseFileCall

NextViews ==
    \/ FirstParseFileCall
    \/ CalculateMetricsCall
    \/ GenerateChartDataCall
    \/ GetTransactionBreakdownCall
    \/ GetTopErrorsCall

SpecViews == Init /\ [][NextViews]_vars

----------------------------------------------------------------------------
(* calculatePercentile on its own                                           *)

\* the longest array and the largest value of the arrays the percentile
\* function is applied to
MaxArrayLen == 3
MaxValue == 2

IsSorted(a) == \A i \in 1..(Len(a) - 1) : a[i] <= a[i + 1]
SortedArrays == {a \in SeqsUpTo(0..MaxValue, MaxArrayLen) : IsSorted(a)}

\* the percentiles the engine asks for (90, 95, 99) and others around the
\* two guards of lines 428-429
Percentiles == {-10, 0, 1, 25, 50, 75, 90, 95, 99, 100, 150}

InitPercentile ==
    /\ records = <<>>
    /\ metricsCache = <<>>
    /\ lastParseResult = <<>>
    /\ input = <<>>
    /\ discarded = [records |-> FALSE, metricsCache |-> FALSE]
    /\ call \in [op : {"arguments"}, sortedArray : SortedArrays,
                 percentile : Percentiles]
    /\ ret = <<>>
    /\ page = <<>>
    /\ app = <<>>

\* this.calculatePercentile(sortedArray, percentile)
CalculatePercentileCall ==
    /\ call.op = "arguments"
    /\ call' = [call EXCEPT !.op = "calculatePercentile"]
    /\ ret' = calculatePercentile(call.sortedArray, call.percentile)
    /\ UNCHANGED <<records, metricsCache, lastParseResult, input, discarded,
                 page, app>>

NextPercentile == CalculatePercentileCall

SpecPercentile == InitPercentile /\ [][NextPercentile]_vars

----------------------------------------------------------------------------
(* getTransactionBreakdown over record collections in every order           *)

\* the most records of a collection the rollup is applied to
MaxRollupLen == 3

LabelLogin == <<"L","o","g","i","n">>
LabelHome == <<"H","o","m","e">>

\* retained records as parseFile leaves them (every required field set),
\* differing in label, elapsed and success
RollupRecords ==
    {[EmptyRecord EXCEPT !.timestamp = <<MsPerSecond>>,
                         !.elapsed = <<elapsed>>,
                         !.label = <<label>>,
                         !.responseCode = <<DefaultResponseCode>>,
                         !.success = <<success>>,
                         !.threadName = <<DefaultThreadName>>] :
        elapsed \in 0..MaxValue, label \in {LabelLogin, LabelHome},
        success \in BOOLEAN}

\* a parser holding any of the collections of at most MaxRollupLen such
\* records, in any order
InitRollup ==
    /\ records \in SeqsUpTo(RollupRecords, MaxRollupLen)
    /\ metricsCache = <<>>
    /\ lastParseResult = <<>>
    /\ input = <<>>
    /\ discarded = [records |-> FALSE, metricsCache |-> FALSE]
    /\ call = [op |-> "new"]
    /\ ret = <<>>
    /\ page = <<>>
    /\ app = <<>>

NextRollup == GetTransactionBreakdownCall

SpecRollup == InitRollup /\ [][NextRollup]_vars

----------------------------------------------------------------------------
(* detectDelimiter on its own                                               *)

\* the longest header line detection is applied to
MaxLineLen == 4

\* a letter, the four candidates and the quote
LineChars == {"a", TAB, ",", ";", "|", QUOTE}

InitDelimiter ==
    /\ records = <<>>
    /\ metricsCache = <<>>
    /\ lastParseResult = <<>>
    /\ input = <<>>
    /\ discarded = [records |-> FALSE, metricsCache |-> FALSE]
    /\ call \in [op : {"arguments"}, line : SeqsUpTo(LineChars, MaxLineLen)]
    /\ ret = <<>>
    /\ page = <<>>
    /\ app = <<>>

\* this.detectDelimiter(line), any number of times on the same line
DetectDelimiterCall ==
    /\ call' = [call EXCEPT !.op = "detectDelimiter"]
    /\ ret' = detectDelimiter(call.line)
    /\ UNCHANGED <<records, metricsCache, lastParseResult, input, discarded,
                 page, app>>

SpecDelimiter == InitDelimiter /\ [][DetectDelimiterCall]_vars

----------------------------------------------------------------------------
(* The upload handlers of AppProvider (contexts/AppContext.tsx) and of the  *)
(* Index page (pages/Index.tsx), and the memoized views of the page         *)

\* the most uploads that are suspended in file.text() at one time
MaxInFlight == 2

\* a File: its name, and the text file.text() resolves to, made of the
\* narrow header and the given rows
FileOf(name, rows) ==
    [name |-> name,
     content |-> JoinWith(<<HeaderTall>> \o Selected(RowsTall, rows), NL)]

\* two files of two records each, two files of one record, a file without
\* rows
Files ==
    {FileOf("a.jtl", {1, 2}), FileOf("b.jtl", {2, 3}), FileOf("c.jtl", {1}),
     FileOf("d.jtl", {3}), FileOf("empty.jtl", {})}

\* new JTLParser()
NewParser ==
    [records |-> <<>>, metricsCache |-> <<>>, lastParseResult |-> <<>>]

\* newParser.parseFile(content) on a new parser: the parser and the result
ParsedBy(content) == parseFile(NewParser, ParseOutcome(content, SteadyClock))

\* the useState values of a mounted component: no parser, no file name, not
\* processing. Kept with them: reading, the files of the uploads suspended
\* in `await file.text()`, in the order the uploads started; and loaded,
\* the name of the file the parser was built from
Mounted ==
    [parser |-> <<>>, fileName |-> "", isProcessing |-> FALSE,
     reading |-> <<>>, loaded |-> ""]

\* handleFileUpload up to its await: setIsProcessing(true),
\* setFileName(file.name), file.text() is pending
UploadStarted(state, file) ==
    [state EXCEPT !.isProcessing = TRUE,
                  !.fileName = file.name,
                  !.reading = Append(@, file)]

\* the upload at position k is no longer suspended
Resumed(reading, k) ==
    SubSeq(reading, 1, k - 1) \o SubSeq(reading, k + 1, Len(reading))

\* handleFileUpload after its await, the text being read and parsed: on a
\* failed parse setIsProcessing(false) and return; on success
\* setParser(newParser), and setIsProcessing(false) in the finally block
UploadParsed(state, k, parsed) ==
    IF ~parsed.result.success
    THEN [state EXCEPT !.isProcessing = FALSE,
                       !.reading = Resumed(@, k)]
    ELSE [state EXCEPT !.parser = <<parsed.this>>,
                       !.loaded = state.reading[k].name,
                       !.isProcessing = FALSE,
                       !.reading = Resumed(@, k)]

\* handleFileUpload after its await, file.text() having rejected: the catch
\* block, then setIsProcessing(false) in the finally block
UploadFailed(state, k) ==
    [state EXCEPT !.isProcessing = FALSE, !.reading = Resumed(@, k)]

\* handleReset
Reset(state) ==
    [state EXCEPT !.parser = <<>>, !.fileName = "", !.isProcessing = FALSE,
                  !.loaded = ""]

\* what an upload that resumes leaves in call: whether it set the parser
Outcome(before, after) ==
    IF after.parser # before.parser THEN "uploaded" ELSE "upload failed"

\* AppProvider is mounted
InitApp ==
    /\ records = <<>>
    /\ metricsCache = <<>>
    /\ lastParseResult = <<>>
    /\ input = <<>>
    /\ discarded = [records |-> FALSE, metricsCache |-> FALSE]
    /\ call = [op |-> "mount"]
    /\ ret = <<>>
    /\ page = <<>>
    /\ app = Mounted

\* handleFileUpload(file) is called and runs up to its await
AppHandleFileUploadCall ==
    \E file \in Files :
        /\ Len(app.reading) < MaxInFlight
        /\ app' = UploadStarted(app, file)
        /\ call' = [op |-> "handleFileUpload"]
        /\ UNCHANGED <<records, metricsCache, lastParseResult, input,
                       discarded, ret, page>>

\* file.text() resolves for one of the suspended uploads, which runs to its
\* end
AppFileTextResolves ==
    \E k \in DOMAIN app.reading :
        /\ app' = UploadParsed(app, k, ParsedBy(app.reading[k].content))
        /\ call' = [op |-> Outcome(app, app')]
        /\ UNCHANGED <<records, metricsCache, lastParseResult, input,
                       discarded, ret, page>>

\* file.text() rejects for one of the suspended uploads, which runs to its
\* end
AppFileTextRejects ==
    \E k \in DOMAIN app.reading :
        /\ app' = UploadFailed(app, k)
        /\ call' = [op |-> "upload failed"]
        /\ UNCHANGED <<records, metricsCache, lastParseResult, input,
                       discarded, ret, page>>

\* handleReset() is called
AppHandleResetCall ==
    /\ app' = Reset(app)
    /\ call' = [op |-> "handleReset"]
    /\ UNCHANGED <<records, metricsCache, lastParseResult, input, discarded,
                   ret, page>>

NextApp ==
    \/ AppHandleFileUploadCall
    \/ AppFileTextResolves
    \/ AppFileTextRejects
    \/ AppHandleResetCall

SpecApp == InitApp /\ [][NextApp]_vars

\* the dependency of the four useMemo calls of the Index page:
\* parser?.getRecords().length, <<>> standing for undefined
RecordsLength(parser) ==
    IF parser = <<>> THEN <<>> ELSE <<Len(parser[1].records)>>

\* the four useMemo callbacks: metrics and chartData are null without a
\* parser (<<>>), transactions and topErrors are empty
Views(parser) ==
    IF parser = <<>>
    THEN [deps |-> <<>>, metrics |-> <<>>, chartData |-> <<>>,
          transactions |-> <<>>, topErrors |-> <<>>]
    ELSE [deps |-> RecordsLength(parser),
          metrics |-> <<calculateMetrics(parser[1]).result>>,
          chartData |-> <<generateChartData(parser[1], DefaultBucketSize)>>,
          transactions |-> getTransactionBreakdown(parser[1]),
          topErrors |-> getTopErrors(parser[1])]

\* one render of the page: each useMemo keeps its value unless the
\* dependency differs from the one of the render before; computing the
\* metrics leaves them cached in the parser
Render(state) ==
    IF RecordsLength(state.parser) = state.memo.deps THEN state
    ELSE [state EXCEPT !.memo = Views(state.parser),
                       !.parser = IF @ = <<>> THEN @
                                  ELSE <<calculateMetrics(@[1]).this>>]

\* the Index page is mounted and has rendered once
InitIndex ==
    /\ records = <<>>
    /\ metricsCache = <<>>
    /\ lastParseResult = <<>>
    /\ input = <<>>
    /\ discarded = [records |-> FALSE, metricsCache |-> FALSE]
    /\ call = [op |-> "mount"]
    /\ ret = <<>>
    /\ page = Mounted @@ [memo |-> Views(<<>>)]
    /\ app = <<>>

\* a file is given to the FileDropZone, which the page shows while it has
\* no parser: handleFileUpload(file) runs up to its await, the page renders
IndexHandleFileUploadCall ==
    \E file \in Files :
        /\ page.parser = <<>>
        /\ Len(page.reading) < MaxInFlight
        /\ page' = Render(UploadStarted(page, file))
        /\ call' = [op |-> "handleFileUpload"]
        /\ UNCHANGED <<records, metricsCache, lastParseResult, input,
                       discarded, ret, app>>

\* file.text() resolves for one of the suspended uploads, which runs to its
\* end; the page renders
IndexFileTextResolves ==
    \E k \in DOMAIN page.reading :
        /\ page' = Render(UploadParsed(page, k,
                                        ParsedBy(page.reading[k].content)))
        /\ call' = [op |-> Outcome(page, page')]
        /\ UNCHANGED <<records, metricsCache, lastParseResult, input,
                       discarded, ret, app>>

\* file.text() rejects for one of the suspended uploads; the page renders
IndexFileTextRejects ==
    \E k \in DOMAIN page.reading :
        /\ page' = Render(UploadFailed(page, k))
        /\ call' = [op |-> "upload failed"]
        /\ UNCHANGED <<records, metricsCache, lastParseResult, input,
                       discarded, ret, app>>

NextIndex ==
    \/ IndexHandleFileUploadCall
    \/ IndexFileTextResolves
    \/ IndexFileTextRejects

SpecIndex == InitIndex /\ [][NextIndex]_vars

----------------------------------------------------------------------------
(* Properties: what the last parseFile call was given                       *)

\* the text and the clock of the last parseFile call, and what they parse to
LastContent == input[1][1]
LastClock == input[1][2]
LastOutcome == ParseMemo[input[1]]

\* the rows the loop of the last parseFile call went through
LastTrace ==
    IF LastOutcome.acc = <<>> THEN <<>> ELSE LastOutcome.acc[1].trace

\* the number of lines of a text after trimming: one more than its line
\* breaks
LineCount(content) ==
    Cardinality({i \in DOMAIN trim(content) : trim(content)[i] = NL}) + 1

IsAccepted(row) == row.accepted
IsRejected(row) == ~row.accepted

----------------------------------------------------------------------------
(* C1                                                                       *)

\* C1: parseFile on a text of fewer than 2 lines after trimming returns a
\* failure result: success is false, the records list is empty, there is a
\* non-empty error message, validRecords is 0 and no row was parsed
C1_StructuralFailure ==
    (call.op = "parseFile" /\ LineCount(LastContent) < 2) =>
        /\ ret.success = FALSE
        /\ ret.records = <<>>
        /\ ret.error # <<>> /\ ret.error[1] # ""
        /\ ret.debugInfo.validRecords = 0
        /\ ret.debugInfo.parsedRecords = 0
        /\ LastTrace = <<>>

\* a header line alone (its line break trimmed away) was parsed
C1_Witness ==
    /\ call.op = "parseFile"
    /\ LastContent = HeaderFull \o <<NL>>
    /\ ret.success = FALSE
    /\ ret.debugInfo.totalLines = 1

----------------------------------------------------------------------------
(* C2                                                                       *)

\* the lines after the header that are not blank: the rows the loop counts
DataRows(content) ==
    LET lines == split(trim(content), NL)
        NotBlank(line) == trim(line) # <<>>
    IN  SelectSeq(Tail(lines), NotBlank)

----------------------------------------------------------------------------
(* C3                                                                       *)

\* what the field mapping produced for a row
MappedTime(row) == row.mapped.timestamp # <<>> \/ row.mapped.elapsed # <<>>
MappedOther(row) ==
    \/ (row.mapped.label # <<>> /\ row.mapped.label[1] # <<>>)
    \/ row.mapped.responseCode # <<>>
    \/ row.mapped.success # <<>>

\* C3: every retained record comes from a row for which the field mapping
\* produced a timestamp or an elapsed, and a non-empty label, a responseCode
\* or a success; a row with neither timestamp nor elapsed is never retained
C3_RetainedHasTimeData ==
    call.op = "parseFile" =>
        /\ Len(records) = Len(SelectSeq(LastTrace, IsAccepted))
        /\ \A row \in Range(LastTrace) :
                row.accepted => MappedTime(row) /\ MappedOther(row)

\* a text with a retained row and a row that has a label, a responseCode and
\* a success but neither a timestamp nor an elapsed, and was rejected
C3_Witness ==
    /\ call.op = "parseFile"
    /\ records # <<>>
    /\ \E row \in Range(LastTrace) :
            /\ ~MappedTime(row)
            /\ row.mapped.label # <<>>
            /\ row.mapped.responseCode # <<>>
            /\ row.mapped.success # <<>>
            /\ ~row.accepted

----------------------------------------------------------------------------
(* C4                                                                       *)

\* the text has 2 lines or more, is tab-delimited, and each of its rows has
\* a numeric timestamp cell and a numeric elapsed cell
NumericTimeRows ==
    /\ call.op = "parseFile"
    /\ LineCount(LastContent) >= 2
    /\ ret.debugInfo.detectedDelimiter = <<TAB>>
    /\ \A row \in Range(LastTrace) :
            row.mapped.timestamp # <<>> /\ row.mapped.elapsed # <<>>

----------------------------------------------------------------------------
(* C5                                                                       *)

\* the record collection the most recent parseFile call produced (empty
\* before the first call)
LastParsed == IF input = <<>> THEN <<>> ELSE LastOutcome.result.records

\* the metrics of a record collection, computed with nothing cached
FreshMetrics(recs) ==
    calculateMetrics([records |-> recs, metricsCache |-> <<>>,
                      lastParseResult |-> <<>>]).result

\* C5: in any sequence of parseFile and calculateMetrics calls, every
\* calculateMetrics call returns the metrics of the collection that the most
\* recent parseFile call produced, and the cache never holds anything else
C5_NoStaleMetrics ==
    /\ call.op = "calculateMetrics" => ret = FreshMetrics(LastParsed)
    /\ metricsCache # <<>> => metricsCache[1] = FreshMetrics(LastParsed)

\* metrics were cached, a parseFile call replaced the collection and
\* discarded them, and calculateMetrics was called again
C5_Witness ==
    /\ call.op = "calculateMetrics"
    /\ discarded.metricsCache
    /\ ret.totalRequests > 0
    /\ metricsCache = <<ret>>

----------------------------------------------------------------------------
(* C6                                                                       *)

\* the retained rows of a trace, in row order, with the defaults of lines
\* 136-145, the k-th of them filled in when k - 1 records were held
RetainedRows(trace, clock) ==
    LET kept == SelectSeq(trace, IsAccepted)
    IN  [k \in DOMAIN kept |->
            FillDefaults(kept[k].mapped, Now(clock, kept[k].line), k - 1)]

\* C6: after each parseFile call the collection is exactly the records
\* retained from that call's text, in row order, whatever the collection
\* held before; after a structurally failing call it is empty
C6_RebuiltWholesale ==
    call.op = "parseFile" =>
        /\ records = RetainedRows(LastTrace, LastClock)
        /\ LineCount(LastContent) < 2 => records = <<>>
        /\ ret.records = records

\* a parseFile call that found records in the collection and left it with
\* the one record of its own text
C6_Witness ==
    /\ call.op = "parseFile"
    /\ discarded.records
    /\ Len(LastTrace) = 1
    /\ Len(records) = 1

----------------------------------------------------------------------------
(* C7                                                                       *)

\* the fields of a metrics object that are all 0 in both no-data results
ZeroTimings(m) ==
    /\ m.avgResponseTime = 0 /\ m.maxResponseTime = 0 /\ m.minResponseTime = 0
    /\ m.p90ResponseTime = 0 /\ m.p95ResponseTime = 0 /\ m.p99ResponseTime = 0
    /\ m.throughput = 0 /\ m.transactionsPerSecond = 0 /\ m.testDuration = 0
    /\ m.avgConnectTime = 0 /\ m.avgLatency = 0 /\ m.successfulRequests = 0

\* no record has an elapsed value that is a number >= 0
NoUsableElapsed(recs) ==
    \A i \in DOMAIN recs : recs[i].elapsed = <<>> \/ recs[i].elapsed[1] < 0

\* C7: calculateMetrics on an empty collection returns all zeros, with
\* errorRate 0 and totalRequests 0; on a non-empty collection without a
\* non-negative elapsed value it returns zero timings with errorRate 100 and
\* totalRequests the number of records
C7_TwoNoDataResults ==
    call.op = "calculateMetrics" =>
        /\ records = <<>> =>
            /\ ZeroTimings(ret)
            /\ ret.errorRate = 0
            /\ ret.totalRequests = 0
            /\ ret.failedRequests = 0
        /\ (records # <<>> /\ NoUsableElapsed(records)) =>
            /\ ZeroTimings(ret)
            /\ ret.errorRate = 100 * Hundredths
            /\ ret.totalRequests = Len(records)
            /\ ret.failedRequests = Len(records)

\* calculateMetrics was called on two records or more, all with a negative
\* elapsed value
C7_Witness ==
    /\ call.op = "calculateMetrics"
    /\ Len(records) >= 2
    /\ NoUsableElapsed(records)
    /\ ret.errorRate = 100 * Hundredths

----------------------------------------------------------------------------
(* C8                                                                       *)

\* C8 as stated: errorRate is failedRequests / totalRequests x 100 whenever
\* totalRequests > 0 (errorRate is held in hundredths)
C8_ErrorRateExact ==
    (call.op = "calculateMetrics" /\ ret.totalRequests > 0) =>
        ret.errorRate * ret.totalRequests
            = ret.failedRequests * 100 * Hundredths

\* C8, amended: whenever totalRequests > 0, errorRate is
\* failedRequests / totalRequests x 100 rounded to two decimals (it is
\* within half a hundredth of the quotient); and errorRate is 100 when the
\* collection is non-empty without a usable elapsed value
C8_ErrorRateRounded ==
    call.op = "calculateMetrics" =>
        /\ ret.totalRequests > 0 =>
            /\ 2 * (ret.errorRate * ret.totalRequests
                        - ret.failedRequests * 100 * Hundredths)
                    <= ret.totalRequests
            /\ 2 * (ret.failedRequests * 100 * Hundredths
                        - ret.errorRate * ret.totalRequests)
                    <= ret.totalRequests
            /\ ret.failedRequests
                    = Len(records) - Len(SelectSeq(records, IsSuccess))
                \/ NoUsableElapsed(records)
        /\ (records # <<>> /\ NoUsableElapsed(records)) =>
                ret.errorRate = 100 * Hundredths

\* three records of which two failed: the quotient 66.666... is returned as
\* 66.67
C8_Witness ==
    /\ call.op = "calculateMetrics"
    /\ ret.totalRequests = 3
    /\ ret.failedRequests = 2
    /\ ret.errorRate = 6667

----------------------------------------------------------------------------
(* C9                                                                       *)

\* ceil(p / 100 x n) - 1 clamped to [0, n - 1], from the definition of the
\* ceiling: the k with 100 k < p n <= 100 (k + 1)
NearestRankIndex(n, p) ==
    IF p * n <= 0 THEN 0
    ELSE IF p * n > 100 * n THEN n - 1
    ELSE CHOOSE k \in 0..(n - 1) : 100 * k < p * n /\ p * n <= 100 * (k + 1)

\* C9: calculatePercentile on an ascending non-empty array of n values
\* returns the element at index ceil(p / 100 x n) - 1 clamped to [0, n - 1];
\* for p = 0 that is the minimum, for p >= 100 the maximum, and the result
\* does not decrease when p grows
C9_NearestRank ==
    (call.op = "calculatePercentile" /\ call.sortedArray # <<>>) =>
        /\ ret = call.sortedArray[
                    NearestRankIndex(Len(call.sortedArray), call.percentile)
                        + 1]
        /\ call.percentile = 0 => ret = MinOf(call.sortedArray)
        /\ call.percentile >= 100 => ret = MaxOf(call.sortedArray)
        /\ \A q \in Percentiles :
                q <= call.percentile =>
                    calculatePercentile(call.sortedArray, q) <= ret

\* the median of three distinct values: neither guard applies and the index
\* is neither the first nor the last
C9_Witness ==
    /\ call.op = "calculatePercentile"
    /\ call.sortedArray = <<0, 1, 2>>
    /\ call.percentile = 50
    /\ ret = 1

----------------------------------------------------------------------------
(* C10                                                                      *)

\* a record with a strictly positive timestamp and a numeric elapsed
PositiveTimed(r) ==
    r.timestamp # <<>> /\ r.timestamp[1] > 0 /\ r.elapsed # <<>>

\* the bucket index of a record among the given valid records
IndexAmong(r, valid, bucketSize) ==
    (r.timestamp[1] - MinOf(Timestamps(valid))) \div (bucketSize * MsPerSecond)

\* generateChartData took the bucketing path of lines 474-540
Bucketed(valid, bucketSize) ==
    /\ valid # <<>>
    /\ bucketSize > 0
    /\ MinOf(Timestamps(valid)) < MaxOf(Timestamps(valid))

\* the points of a chart that stand for bucket k
PointsOf(chart, k) == {i \in DOMAIN chart : chart[i].bucketKey = k}

\* some valid record falls into bucket k
RecordAt(valid, bucketSize, k) ==
    \E j \in DOMAIN valid : IndexAmong(valid[j], valid, bucketSize) = k

\* the valid records that fall into the bucket of record r
SameBucket(r, valid, bucketSize) ==
    {j \in DOMAIN valid :
        IndexAmong(valid[j], valid, bucketSize)
            = IndexAmong(r, valid, bucketSize)}

\* C10: generateChartData counts every valid record (strictly positive
\* timestamp, numeric elapsed) in exactly one bucket, the one with index
\* floor((timestamp - minTimestamp) / bucketDurationMs), so the sample
\* counts of the buckets sum to the number of valid records; the other
\* records are in no bucket and stay in the record collection
C10_BucketsPartition ==
    call.op = "generateChartData" =>
        /\ SumSeq([i \in DOMAIN ret |-> ret[i].samples])
                = Len(SelectSeq(records, PositiveTimed))
        /\ Bucketed(SelectSeq(records, PositiveTimed), call.bucketSize) =>
            /\ \A j \in DOMAIN SelectSeq(records, PositiveTimed) :
                \E i \in DOMAIN ret :
                    /\ PointsOf(ret, IndexAmong(
                            SelectSeq(records, PositiveTimed)[j],
                            SelectSeq(records, PositiveTimed),
                            call.bucketSize)) = {i}
                    /\ ret[i].samples = Cardinality(SameBucket(
                            SelectSeq(records, PositiveTimed)[j],
                            SelectSeq(records, PositiveTimed),
                            call.bucketSize))
            /\ \A i \in DOMAIN ret :
                    RecordAt(SelectSeq(records, PositiveTimed),
                             call.bucketSize, ret[i].bucketKey)
        /\ records = LastParsed

\* a collection with two valid records 30 seconds apart and a record with a
\* negative timestamp was charted in 30-second buckets: two buckets of one
\* record each, three records in the collection
C10_Witness ==
    /\ call.op = "generateChartData"
    /\ call.bucketSize = DefaultBucketSize
    /\ Len(ret) = 2
    /\ ret[1].samples = 1 /\ ret[2].samples = 1
    /\ Len(records) = 3
    /\ Len(SelectSeq(records, PositiveTimed)) = 2

----------------------------------------------------------------------------
(* C11                                                                      *)

\* the time between the first and the last valid record, in milliseconds
ValidSpanMs(recs) ==
    MaxOf(Timestamps(SelectSeq(recs, PositiveTimed)))
        - MinOf(Timestamps(SelectSeq(recs, PositiveTimed)))

\* C11: for a positive bucket width, the number of buckets generateChartData
\* emits times the bucket width (in milliseconds) is at least the time
\* between the first and the last valid record
C11_BucketsCoverSpan ==
    (/\ call.op = "generateChartData"
     /\ call.bucketSize > 0
     /\ SelectSeq(records, PositiveTimed) # <<>>)
        => Len(ret) * call.bucketSize * MsPerSecond >= ValidSpanMs(records)

----------------------------------------------------------------------------
(* C12                                                                      *)

\* the elapsed values of the records of a label, in record order
ElapsedOf(recs, label) ==
    LET Labelled(r) == r.label = label
    IN  [i \in DOMAIN SelectSeq(recs, Labelled) |->
            SelectSeq(recs, Labelled)[i].elapsed[1]]

\* C12: the average getTransactionBreakdown maintains incrementally for a
\* label equals the sum of the elapsed values of the label's records
\* divided by their number, for every collection in every order of its
\* records (avgTime = sum / count, as fractions), and the row reports that
\* quotient rounded
C12_IncrementalAverage ==
    call.op = "getTransactionBreakdown" =>
        /\ \A r \in Range(records) :
                Cardinality({i \in DOMAIN ret : ret[i].label = r.label}) = 1
        /\ \A i \in DOMAIN ret :
            /\ ret[i].count = Len(ElapsedOf(records, ret[i].label))
            /\ ret[i].count > 0
            /\ ret[i].avgTime.kind = "finite"
            /\ ret[i].avgTime.num * ret[i].count
                    = SumSeq(ElapsedOf(records, ret[i].label))
                        * ret[i].avgTime.den
            /\ ret[i].avgResponseTime
                    = RoundDiv(SumSeq(ElapsedOf(records, ret[i].label)),
                               ret[i].count)

\* three records of one label with elapsed 2, 0 and 2: the average 4/3 was
\* built in three steps and is reported as 1
C12_Witness ==
    /\ call.op = "getTransactionBreakdown"
    /\ Len(records) = 3
    /\ ElapsedOf(records, <<LabelLogin>>) = <<2, 0, 2>>
    /\ Len(ret) = 1
    /\ ret[1].count = 3
    /\ ret[1].avgTime.num * 3 = 4 * ret[1].avgTime.den
    /\ ret[1].avgResponseTime = 1

----------------------------------------------------------------------------
(* C13                                                                      *)

\* the reference file: the reference header and its two complete rows
ReferenceText == JoinWith(<<HeaderFull, RowsFull[1], RowsFull[2]>>, NL)

\* C13: the reference file yields 2 retained records; calculateMetrics then
\* gives avgResponseTime 150 and errorRate 50; getTransactionBreakdown gives
\* exactly one row: Login, count 2, avgResponseTime 150, errorRate 50
C13_ReferenceScenario ==
    (input # <<>> /\ LastContent = ReferenceText) =>
        /\ Len(records) = 2
        /\ lastParseResult # <<>>
        /\ lastParseResult[1].success
        /\ lastParseResult[1].debugInfo.validRecords = 2
        /\ call.op = "calculateMetrics" =>
            /\ ret.avgResponseTime = 150
            /\ ret.errorRate = 50 * Hundredths
            /\ ret.totalRequests = 2
        /\ call.op = "getTransactionBreakdown" =>
            /\ Len(ret) = 1
            /\ ret[1].label = <<LabelLogin>>
            /\ ret[1].count = 2
            /\ ret[1].avgResponseTime = 150
            /\ ret[1].errorRate.kind = "finite"
            /\ ret[1].errorRate.num = 50 * ret[1].errorRate.den
            /\ ret[1].errorCount = 1

\* the reference file was parsed, its metrics were computed and cached, and
\* its transaction breakdown was then asked for
C13_Witness ==
    /\ input # <<>>
    /\ LastContent = ReferenceText
    /\ metricsCache # <<>>
    /\ metricsCache[1].avgResponseTime = 150
    /\ call.op = "getTransactionBreakdown"
    /\ Len(ret) = 1

----------------------------------------------------------------------------
(* C14                                                                      *)

\* the number of fields the row splitter gives for a candidate
FieldCount(line, delimiter) == Len(parseRow(line, delimiter))

\* the position of a candidate in the list
CandidateIndex(delimiter) ==
    CHOOSE k \in DOMAIN delimiters : delimiters[k] = delimiter

\* C14: detectDelimiter returns the first candidate of tab, comma,
\* semicolon, pipe whose split of the line has the most fields: no
\* candidate has more fields, every earlier candidate has fewer, so tab wins
\* every tie
C14_FirstWithMostFields ==
    call.op = "detectDelimiter" =>
        /\ ret \in Range(delimiters)
        /\ \A d \in Range(delimiters) :
                FieldCount(call.line, d) <= FieldCount(call.line, ret)
        /\ \A k \in 1..(CandidateIndex(ret) - 1) :
                FieldCount(call.line, delimiters[k])
                    < FieldCount(call.line, ret)
        /\ (\A d \in Range(delimiters) :
                FieldCount(call.line, d) <= FieldCount(call.line, TAB))
            => ret = TAB

\* a line on which comma and semicolon both give two fields and tab and pipe
\* one: the comma, first of the two, was returned
C14_Witness ==
    /\ call.op = "detectDelimiter"
    /\ call.line = <<"a", ";", ",">>
    /\ FieldCount(call.line, ",") = 2
    /\ FieldCount(call.line, ";") = 2
    /\ ret = ","

----------------------------------------------------------------------------
(* C15                                                                      *)

\* a parser object that holds the collection and has computed nothing yet
FreshParser(recs) ==
    [records |-> recs, metricsCache |-> <<>>, lastParseResult |-> <<>>]

\* C15: a call of calculateMetrics, generateChartData or
\* getTransactionBreakdown leaves the record collection as it was, and
\* returns what it returns for that collection on a parser that has computed
\* no view yet, whatever views were computed before the call
C15_ViewsReadOnly ==
    [][/\ call'.op \in {"calculateMetrics", "generateChartData",
                        "getTransactionBreakdown"}
            => records' = records
       /\ call'.op = "calculateMetrics"
            => ret' = calculateMetrics(FreshParser(records)).result
       /\ call'.op = "generateChartData"
            => ret' = generateChartData(FreshParser(records),
                                        call'.bucketSize)
       /\ call'.op = "getTransactionBreakdown"
            => ret' = getTransactionBreakdown(FreshParser(records))]_vars

\* the metrics of a collection of two records or more, one of them with a
\* negative elapsed, are cached, and the transaction breakdown was then
\* computed over all of the records
C15_Witness ==
    /\ call.op = "getTransactionBreakdown"
    /\ metricsCache # <<>>
    /\ Len(records) >= 2
    /\ \E i \in DOMAIN records : records[i].elapsed[1] < 0
    /\ SumSeq([i \in DOMAIN ret |-> ret[i].count]) = Len(records)

----------------------------------------------------------------------------
(* C16                                                                      *)

\* the records that did not succeed, and those of them with a response code
Failures(recs) ==
    LET Is(r) == r.success # <<TRUE>>
    IN  SelectSeq(recs, Is)
FailedWith(recs, responseCode) ==
    LET Is(r) == r.responseCode = responseCode
    IN  SelectSeq(Failures(recs), Is)

\* C16: getTopErrors groups only the failed records by responseCode: each
\* response code of a failed record has exactly one group and there is no
\* other group; a group's count is the number of failed records with its
\* code and its percentage is that count out of the number of failed
\* records, so the counts sum to the number of failed records and the
\* percentages to 100; the groups are in descending order of count
C16_TopErrors ==
    call.op = "getTopErrors" =>
        /\ \A r \in Range(records) :
                r.success # <<TRUE>> =>
                    Cardinality({i \in DOMAIN ret :
                                    ret[i].responseCode = r.responseCode}) = 1
        /\ \A i \in DOMAIN ret :
            /\ ret[i].count = Len(FailedWith(records, ret[i].responseCode))
            /\ ret[i].count > 0
            /\ ret[i].percentage.kind = "finite"
            /\ ret[i].percentage.num * Len(Failures(records))
                    = ret[i].count * 100 * ret[i].percentage.den
        /\ SumSeq([i \in DOMAIN ret |-> ret[i].count])
                = Len(Failures(records))
        /\ \A i \in 1..(Len(ret) - 1) : ret[i].count >= ret[i + 1].count

\* three failed records, the first with one response code and the next two
\* with another: the group of two comes first
C16_Witness ==
    /\ call.op = "getTopErrors"
    /\ Len(records) = 3
    /\ records[1].responseCode # records[2].responseCode
    /\ records[2].responseCode = records[3].responseCode
    /\ Len(ret) = 2
    /\ ret[1].count = 2 /\ ret[1].responseCode = records[2].responseCode
    /\ ret[2].count = 1 /\ ret[2].responseCode = records[1].responseCode

----------------------------------------------------------------------------
(* C17                                                                      *)

\* the rows the last parseFile call retained, in row order: the k-th of
\* them is the row of the k-th record
RetainedTrace == SelectSeq(LastTrace, IsAccepted)

\* the fields every retained record must have
RequiredFields ==
    {"timestamp", "elapsed", "label", "responseCode", "success", "threadName"}

\* the value a field gets when the mapping left it unset: a default for
\* five of the fields, none for the others (timestamp is synthesized)
DefaultOf(field) ==
    CASE field = "elapsed" -> <<DefaultElapsed>>
      [] field = "label" -> <<DefaultLabel>>
      [] field = "responseCode" -> <<DefaultResponseCode>>
      [] field = "success" -> <<TRUE>>
      [] field = "threadName" -> <<DefaultThreadName>>
      [] OTHER -> <<>>

\* C17: every retained record has timestamp, elapsed, label, responseCode,
\* success and threadName set; a field the mapping of its row set keeps the
\* mapped value; a field the mapping left unset has its default (elapsed
\* 100, label "Unknown", responseCode "200", success true, the placeholder
\* threadName) and nothing else
C17_DefaultsOnlyForUnset ==
    call.op = "parseFile" =>
        /\ Len(records) = Len(RetainedTrace)
        /\ \A k \in DOMAIN records :
            /\ \A field \in RequiredFields : records[k][field] # <<>>
            /\ \A field \in DOMAIN EmptyRecord :
                /\ RetainedTrace[k].mapped[field] # <<>> =>
                        records[k][field] = RetainedTrace[k].mapped[field]
                /\ (RetainedTrace[k].mapped[field] = <<>>
                        /\ field # "timestamp") =>
                        records[k][field] = DefaultOf(field)

----------------------------------------------------------------------------
(* C18                                                                      *)

\* C18: the timestamp of a retained record is the integer parsed from the
\* timestamp cell of its row whenever that cell parses as an integer; only
\* a row without a parsed timestamp (and with an elapsed) gets a synthetic
\* one
C18_ParsedTimestampKept ==
    call.op = "parseFile" =>
        \A k \in DOMAIN records :
            /\ RetainedTrace[k].mapped.timestamp # <<>> =>
                    records[k].timestamp = RetainedTrace[k].mapped.timestamp
            /\ RetainedTrace[k].mapped.timestamp = <<>> =>
                /\ RetainedTrace[k].mapped.elapsed # <<>>
                /\ records[k].timestamp
                    = <<Now(LastClock, RetainedTrace[k].line)
                            - (k - 1) * SyntheticStepMs>>

----------------------------------------------------------------------------
(* C19                                                                      *)

\* the k-th retained record was given a synthetic timestamp
IsSynthetic(k) == ~TruthyNum(RetainedTrace[k].mapped.timestamp)

\* C19: within one parseFile call the synthetic timestamps are strictly
\* decreasing in row order: a record that receives one gets a smaller one
\* than every earlier record that received one, however the clock (which
\* never goes backwards) advances during the pass
C19_SyntheticDecreasing ==
    call.op = "parseFile" =>
        \A j, k \in DOMAIN records :
            (j < k /\ IsSynthetic(j) /\ IsSynthetic(k)) =>
                records[k].timestamp[1] < records[j].timestamp[1]

----------------------------------------------------------------------------
(* C20                                                                      *)

\* a non-empty cell that does not parse as an integer: after an optional
\* sign it does not start with a digit
Unparsable(cell) ==
    /\ cell # <<>>
    /\ \/ Unsigned(cell) = <<>>
       \/ Head(Unsigned(cell)) \notin Range(DigitChars)

\* the columns of a row whose header names the field and whose cell does not
\* parse as an integer
UnparsableColumns(row, headers, field) ==
    {c \in 1..Min(Len(headers), Len(row.values)) :
        /\ NormalizeHeader(headers[c]) \in FieldNames[field]
        /\ Unparsable(trim(row.values[c]))}

\* C20: a non-empty timestamp or elapsed cell that does not parse as an
\* integer leaves the field unset, a non-empty bytes, sentBytes or latency
\* cell that does not parse sets the field to 0; parseFile still returns a
\* result, and such a row is retained when its fields pass the validation
C20_SoftCoercion ==
    call.op = "parseFile" =>
        /\ ret.success \in BOOLEAN
        /\ \A row \in Range(LastTrace) :
            EnoughFields(row.values, ret.debugInfo.detectedHeaders) =>
                /\ \A field \in {"timestamp", "elapsed"} :
                    UnparsableColumns(row, ret.debugInfo.detectedHeaders,
                                      field) # {}
                        => row.mapped[field] = <<>>
                /\ \A field \in {"bytes", "sentBytes", "latency"} :
                    UnparsableColumns(row, ret.debugInfo.detectedHeaders,
                                      field) # {}
                        => row.mapped[field] = <<0>>
                /\ ((TruthyNum(row.mapped.timestamp)
                        \/ row.mapped.elapsed # <<>>)
                    /\ MappedOther(row)) => row.accepted

\* the text with the unparsable cells was parsed: both rows were retained,
\* the first without a mapped timestamp and with bytes, sentBytes and
\* latency 0, the second without a mapped elapsed
C20_Witness ==
    /\ call.op = "parseFile"
    /\ LastContent = TextCoercion
    /\ Len(records) = 2
    /\ LastTrace[1].mapped.timestamp = <<>>
    /\ LastTrace[2].mapped.elapsed = <<>>
    /\ records[1].bytes = <<0>>
    /\ records[1].sentBytes = <<0>>
    /\ records[1].latency = <<0>>
    /\ records[2].elapsed = <<DefaultElapsed>>

----------------------------------------------------------------------------
(* C21                                                                      *)

\* the line breaks among the white space a text starts with
LeadingBreaks(content) ==
    Cardinality({i \in 1..(Len(content) - Len(TrimLeft(content))) :
                    content[i] = NL})

\* the line of the text, as it appears in the text, that line i of the
\* trimmed text comes from
RawLine(content, i) == split(content, NL)[i + LeadingBreaks(content)]

\* the fields of the record that differ from the empty record's
FieldsSet(record) ==
    {f \in DOMAIN EmptyRecord : record[f] # EmptyRecord[f]}

\* C21: for every data row that is mapped, the record the mapping builds is
\* the one built from the cells of the row's line as it appears in the
\* text, cell i under header i; and one header cell sets at most one field
C21_PositionalMapping ==
    (call.op = "parseFile" /\ ret.debugInfo.detectedHeaders # <<>>) =>
        \A row \in Range(LastTrace) :
            EnoughFields(row.values, ret.debugInfo.detectedHeaders) =>
                /\ row.mapped =
                     MapRow(ret.debugInfo.detectedHeaders,
                            parseRow(RawLine(LastContent, row.line),
                                     ret.debugInfo.detectedDelimiter[1]))
                /\ \A c \in 1..Min(Len(row.values),
                                   Len(ret.debugInfo.detectedHeaders)) :
                     Cardinality(FieldsSet(
                         mapFieldToRecord(ret.debugInfo.detectedHeaders[c],
                                          row.values[c], EmptyRecord))) <= 1

----------------------------------------------------------------------------
(* C22                                                                      *)

\* the two-state machine read character by character from position i, q
\* being its state and n the delimiters it has read outside quotes so far:
\* the number of delimiters read outside quotes at the end of the line
RECURSIVE DelimitersOutside(_, _, _, _, _)
DelimitersOutside(line, delimiter, i, q, n) ==
    IF i > Len(line) THEN n
    ELSE IF line[i] = QUOTE /\ (i = 1 \/ line[i - 1] = delimiter \/ q)
    THEN DelimitersOutside(line, delimiter, i + 1, ~q, n)
    ELSE IF line[i] = delimiter /\ ~q
    THEN DelimitersOutside(line, delimiter, i + 1, q, n + 1)
    ELSE DelimitersOutside(line, delimiter, i + 1, q, n)

\* C22: for every line and every delimiter parseRow returns a sequence of
\* cells, one more than the delimiters the two-state machine reads outside
\* quotes, whether or not the quotes of the line are balanced
C22_ParseRowCells ==
    call.op = "detectDelimiter" =>
        \A k \in DOMAIN delimiters :
            /\ parseRow(call.line, delimiters[k]) \in Seq(Seq(LineChars))
            /\ Len(parseRow(call.line, delimiters[k]))
                 = 1 + DelimitersOutside(call.line, delimiters[k], 1,
                                         FALSE, 0)

\* a line with an opening quote that is never closed was decoded: its two
\* commas are inside the quotes and the line is one cell
C22_Witness ==
    /\ call.op = "detectDelimiter"
    /\ call.line = <<QUOTE, ",", "a", ",">>
    /\ Len(parseRow(call.line, ",")) = 1
    /\ ret = TAB

----------------------------------------------------------------------------
(* C23                                                                      *)

\* the records with a positive timestamp, by position
PositiveStamped(recs) ==
    {i \in DOMAIN recs : recs[i].timestamp # <<>> /\ recs[i].timestamp[1] > 0}

\* the positive timestamps, their largest and their smallest
PositiveStamps(recs) == {recs[i].timestamp[1] : i \in PositiveStamped(recs)}
Largest(S) == CHOOSE m \in S : \A x \in S : x <= m
Smallest(S) == CHOOSE m \in S : \A x \in S : m <= x

\* the distance in milliseconds between the smallest and the largest of the
\* positive timestamps
StampSpanMs(recs) ==
    Largest(PositiveStamps(recs)) - Smallest(PositiveStamps(recs))

\* the test duration in milliseconds: the span of the positive timestamps,
\* one second when there are fewer than two of them
DurationMs(recs) ==
    IF Cardinality(PositiveStamped(recs)) < 2 THEN MsPerSecond
    ELSE StampSpanMs(recs)

\* C23 as stated: whenever a record has a valid elapsed, the test duration
\* is strictly positive and the reported throughput is not zero
C23_ThroughputNonzero ==
    (call.op = "calculateMetrics" /\ ~NoUsableElapsed(records)) =>
        /\ DurationMs(records) > 0
        /\ ret.throughput # 0

\* C23, amended: whenever a record has a valid elapsed, the test duration is
\* the span of the positive timestamps, or one second when there are fewer
\* than two of them; it is zero when two or more positive timestamps all
\* coincide, and then the throughput is reported as 0; otherwise the
\* throughput is the record count over the duration, rounded to 2 decimals
\* (testDuration and throughput are held in hundredths)
C23_ThroughputGuarded ==
    (call.op = "calculateMetrics" /\ ~NoUsableElapsed(records)) =>
        /\ DurationMs(records) >= 0
        /\ ret.testDuration
             = RoundDiv(DurationMs(records) * Hundredths, MsPerSecond)
        /\ DurationMs(records) = 0 =>
             /\ Cardinality(PositiveStamped(records)) >= 2
             /\ ret.throughput = 0
        /\ DurationMs(records) > 0 =>
             ret.throughput
               = RoundDiv(Len(records) * MsPerSecond * Hundredths,
                          DurationMs(records))
        /\ ret.transactionsPerSecond = ret.throughput

\* calculateMetrics was called on two records that share a positive
\* timestamp and have a valid elapsed: the throughput reported is 0
C23_Witness ==
    /\ call.op = "calculateMetrics"
    /\ Len(records) = 2
    /\ ~NoUsableElapsed(records)
    /\ records[1].timestamp = records[2].timestamp
    /\ PositiveStamped(records) = {1, 2}
    /\ ret.throughput = 0
    /\ ret.testDuration = 0

----------------------------------------------------------------------------
(* C24                                                                      *)

\* the elapsed values of the valid records
ValidElapsed(recs) == Responses(SelectSeq(recs, PositiveTimed))

\* there are valid records and they all have the same timestamp
ZeroSpan(recs) ==
    /\ SelectSeq(recs, PositiveTimed) # <<>>
    /\ ValidSpanMs(recs) = 0

\* C24: when all valid records share one timestamp, generateChartData emits
\* one bucket whose average, minimum, maximum and percentile elapsed are
\* those of all the valid records
C24_ZeroSpanSummarizesAll ==
    (call.op = "generateChartData" /\ ZeroSpan(records)) =>
        /\ Len(ret) = 1
        /\ ret[1].responseTime
             = RoundDiv(SumSeq(ValidElapsed(records)),
                        Len(ValidElapsed(records)))
        /\ ret[1].minResponseTime = MinOf(ValidElapsed(records))
        /\ ret[1].maxResponseTime = MaxOf(ValidElapsed(records))
        /\ \A p \in {90, 95, 99} :
            ret[1][CASE p = 90 -> "p90ResponseTime"
                     [] p = 95 -> "p95ResponseTime"
                     [] p = 99 -> "p99ResponseTime"]
              = calculatePercentile(SortAsc(ValidElapsed(records)), p)

----------------------------------------------------------------------------
(* C25                                                                      *)

\* C25: in every bucket generateChartData emits, successRate is the share
\* of the bucket's records that are not counted as errors, times 100 and
\* rounded to 2 decimals (successRate is held in hundredths)
C25_SuccessRateOfBucket ==
    call.op = "generateChartData" =>
        \A k \in DOMAIN ret :
            ret[k].successRate
              = RoundDiv((ret[k].samples - ret[k].errors)
                             * FullPercent * Hundredths,
                         ret[k].samples)

----------------------------------------------------------------------------
(* C26                                                                      *)

\* C26: generateChartData with a bucket size of 0 or less on a collection
\* with valid records returns one bucket, and the bucket's bandwidth, the
\* one field that is a quotient, is a finite number
C26_NonPositiveBucketFinite ==
    (/\ call.op = "generateChartData"
     /\ call.bucketSize <= 0
     /\ SelectSeq(records, PositiveTimed) # <<>>) =>
        /\ Len(ret) = 1
        /\ ret[1].bandwidth.kind = "finite"

----------------------------------------------------------------------------
(* C28                                                                      *)

\* C28: after every parseFile call the result the parser keeps (what
\* getLastParseResult returns) is the result this call returned, and its
\* records and its count of valid records are those of the collection
C28_LastResultIsLatest ==
    call.op = "parseFile" =>
        /\ lastParseResult = <<ret>>
        /\ lastParseResult[1].records = records
        /\ lastParseResult[1].debugInfo.validRecords = Len(records)

----------------------------------------------------------------------------
(* C29                                                                      *)

\* the labels of the records
LabelsOf(recs) == {recs[i].label : i \in DOMAIN recs}

\* what calculateMetrics returns for the parser as it is
MetricsNow == calculateMetrics(This).result

\* the transaction rows have one row per distinct label and their counts
\* sum to totalRequests
RowsCoverRecords(rows) ==
    /\ Len(rows) = Cardinality(LabelsOf(records))
    /\ {rows[k].label : k \in DOMAIN rows} = LabelsOf(records)
    /\ SumSeq([k \in DOMAIN rows |-> rows[k].count])
         = MetricsNow.totalRequests

\* the sum of the rows' error counts
ErrorCountSum(rows) == SumSeq([k \in DOMAIN rows |-> rows[k].errorCount])

\* C29 as stated: for every record collection getTransactionBreakdown emits
\* one row per distinct label, the rows' counts sum to totalRequests and
\* the rows' errorCounts sum to failedRequests
C29_ViewsAgreeAlways ==
    call.op = "getTransactionBreakdown" =>
        /\ RowsCoverRecords(ret)
        /\ ErrorCountSum(ret) = MetricsNow.failedRequests

\* C29, amended: getTransactionBreakdown emits one row per distinct label
\* and the rows' counts sum to totalRequests for every collection; the
\* rows' errorCounts sum to failedRequests when the collection is empty or
\* holds a record with a non-negative elapsed; when it holds records but
\* none with a non-negative elapsed, failedRequests is the number of
\* records, whatever their success flags
C29_ViewsAgree ==
    call.op = "getTransactionBreakdown" =>
        /\ RowsCoverRecords(ret)
        /\ (records = <<>> \/ ~NoUsableElapsed(records))
             => ErrorCountSum(ret) = MetricsNow.failedRequests
        /\ (records # <<>> /\ NoUsableElapsed(records))
             => MetricsNow.failedRequests = Len(records)

\* the transaction rows of a collection with two labels, a failed record
\* and usable elapsed values were asked for
C29_Witness ==
    /\ call.op = "getTransactionBreakdown"
    /\ Len(ret) = 2
    /\ ~NoUsableElapsed(records)
    /\ ErrorCountSum(ret) = 1
    /\ Len(records) = 3

----------------------------------------------------------------------------
(* C27                                                                      *)

\* the views of a parser that holds the given records and has no cache
ViewsOfRecords(recs) == Views(<<[NewParser EXCEPT !.records = recs]>>)

\* C27: the memoized metrics, chart data, transaction rows and top errors
\* of the Index page are those of the records of its current parser,
\* whichever parser it had before
C27_ViewsOfCurrentParser ==
    (page # <<>> /\ page.parser # <<>>) =>
        /\ page.memo.metrics
             = ViewsOfRecords(page.parser[1].records).metrics
        /\ page.memo.chartData
             = ViewsOfRecords(page.parser[1].records).chartData
        /\ page.memo.transactions
             = ViewsOfRecords(page.parser[1].records).transactions
        /\ page.memo.topErrors
             = ViewsOfRecords(page.parser[1].records).topErrors

----------------------------------------------------------------------------
(* C30                                                                      *)

\* once no upload is in flight isProcessing is false, and a parser that is
\* shown is shown under the name of the file it was built from; while an
\* upload is in flight isProcessing is true
UploadStateConsistent ==
    /\ app.reading = <<>> => ~app.isProcessing
    /\ (app.reading = <<>> /\ app.parser # <<>>) => app.fileName = app.loaded
    /\ app.reading # <<>> => app.isProcessing

\* a step of an upload that is still pending or that failed leaves the
\* parser as it is and, under a parser, the file name as it is
PendingOrFailedKeepsShown ==
    call'.op \in {"handleFileUpload", "upload failed"} =>
        /\ app'.parser = app.parser
        /\ app.parser # <<>> => app'.fileName = app.fileName

\* C30: in AppProvider, for every interleaving of uploads and resets: once
\* no upload is in flight isProcessing is false and the file name is that
\* of the file the parser holds; isProcessing is never false while an
\* upload is in flight; and an upload that is pending or failed does not
\* change which data is shown under which file name
C30_UploadsAndResets ==
    /\ [](app # <<>> => UploadStateConsistent)
    /\ [][app # <<>> => PendingOrFailedKeepsShown]_vars

====
